---- MODULE Spec2Model ----
(***************************************************************************)
(* A model of the theold2api gateway: the streaming translator/aggregator  *)
(* (handler.handleStreamResponse, handler.handleNonStreamResponse,         *)
(* handler.HandleChatSessionStream), the chat-completions routing over the *)
(* model registry and the persona cache, and the proxy pool dispatcher     *)
(* (proxy.Client).                                                         *)
(*                                                                         *)
(* Text is a sequence of tokens: "Hel" followed by "lo" is <<"Hel","lo">>, *)
(* string concatenation is \o and the empty string is <<>>.                *)
(***************************************************************************)
EXTENDS Integers, Sequences, FiniteSets, TLC

\* ------------------------------------------------------------------ bounds
\* Upstream body lines read in one exchange.
MaxLines == 4

\* The largest configured pool.
MaxPool == 4
\* Concurrent calls of Client.Do.
NumCalls == 1
\* The largest configured PROXY_RETRY_COUNT.
MaxRetry == 2
\* Health probes issued in one run.
MaxProbes == 1
\* Concurrent readers of the caches
NumReaders == 1

\* A nil pointer / absent JSON field.
Null == "null"

VARIABLES
    \* ---- streaming translator / aggregator (one exchange)
    tpc,            \* position of the response handler: "start", "scan", "done"
    dialect,        \* "direct" or "session": which handler consumes the body
    stream,         \* chatReq.Stream
    lines,          \* the upstream body lines scanner.Scan() has returned so far
    scanErr,        \* scanner.Err() != nil once the loop has ended
    written,        \* frames written to the client (w.Write), in order
    flushed,        \* how many of them flusher.Flush() has pushed out
    status,         \* status passed to w.WriteHeader, 0 while none was written
    agg,            \* the handler's local accumulators
    response,       \* the JSON body encoded at the end ([kind |-> "none"] while none)
    \* ---- process configuration and the two routing caches
    boot,           \* main's position: "persona", "models", then "serving"
    envKey,         \* UPSTREAM_API_KEY ("" when unset)
    cachedAPIKeyOnce, \* whether cachedAPIKeyOnce has run its function
    cachedAPIKey,   \* the package variable the decrypted key is kept in
    keyCalls,       \* the credential requests of the credential run, in order
    personas,       \* PersonaCache.personas
    modelToPersona, \* PersonaCache.modelToPersona
    models,         \* ModelsCache.models
    pcMu,           \* PersonaCache.mu: writer holding it, readers holding it
    pr,             \* PersonaCache.refresh: position and locals
    mr,             \* ModelsCache.refresh: position and locals
    rd,             \* each reader of the caches: position, call and result
    hist,           \* the persona list last published, and whether loadModels ever succeeded
    \* ---- one chat-completions request
    rpc,            \* position of Handler.ChatCompletions
    chatReq,        \* the decoded ChatRequest
    model,          \* the *Model GetModelByID returned
    personaID,      \* the persona id the session is created with (0: none)
    sessionID,      \* the session id CreateSession returned ("": none)
    messages,       \* chatReq.Messages, the history the client sent
    message,        \* the single string SendMessage is given
    route,          \* "none", "session" or "direct"
    calls,          \* the upstream calls this request has issued, in order
    reply,          \* what the handler answered ([kind |-> "none"] while nothing)
    apiKey,         \* API_KEY as middleware.Auth read it (<< >> when unset)
    inbound,        \* the inbound request the middleware chain was given
    served,         \* how the chain answered it: "none", "cors", "401" or "next"
    \* ---- proxy.Client: the pool, its health table and the calls of Do
    proxyEnabled,   \* cfg.ProxyEnabled && len(c.proxies) > 0
    proxies,        \* c.proxies: the URL of each pool entry, in pool order
    retryCount,     \* cfg.ProxyRetryCount
    Healthy,        \* ProxyStatus.Healthy of each pool entry
    FailCount,      \* ProxyStatus.FailCount of each pool entry
    currentIdx,     \* Client.currentIdx
    dpc,            \* position of each call of Client.Do
    di,             \* its loop index i
    dproxy,         \* the pool entry getNextProxy returned to it (0: none)
    dlog,           \* the attempts it has made: client used and outcome
    dres,           \* what it returned ([kind |-> "none"] while running)
    ppc,            \* position of checkProxy(p) for each pool entry
    traffic,        \* the run's traffic: callers of Do, repeats, health probes
    picks,          \* the entries selected since the last failure or health change
    probeFails,     \* per entry: failed probes returned since its last success
    streak,         \* per entry: failures counted since its last success of any kind
    probes,         \* health probes issued so far
    returned,       \* calls of Do that returned and were followed by another
    \* ---- proxy.Client statement by statement, under proxyMu
    proxyMu,        \* Client.proxyMu: held exclusively, number of read holders
    ld,             \* each dispatching goroutine: position, locals, context
    lp              \* each checkProxy goroutine: position

transVars == <<tpc, dialect, stream, lines, scanErr, written, flushed, status, agg, response>>
syncVars == <<pcMu, pr, mr, rd, hist>>
credVars == <<cachedAPIKeyOnce, cachedAPIKey, keyCalls>>
cacheVars == <<boot, envKey, credVars, personas, modelToPersona, models, syncVars>>
authVars == <<apiKey, inbound, served>>
reqVars == <<rpc, chatReq, model, personaID, sessionID, messages, message,
             route, calls, reply, authVars>>

\* What NewClient fixes for the run.
poolConfig == <<proxyEnabled, proxies, retryCount, traffic>>

lockVars == <<proxyMu, ld, lp>>

proxyVars == <<poolConfig, lockVars, Healthy, FailCount, currentIdx,
               dpc, di, dproxy, dlog, dres, ppc, picks, probeFails, streak,
               probes, returned>>

vars == <<transVars, cacheVars, reqVars, proxyVars>>

\* Nothing answered / returned yet.
NoResponse == [kind |-> "none"]
NoRequest == [Method |-> "", Path |-> "", Authorization |-> << >>]

\* ---------------------------------------------------------------- helpers
RECURSIVE Flatten(_)
Flatten(ss) == IF ss = <<>> THEN <<>> ELSE Head(ss) \o Flatten(Tail(ss))

Last(s) == s[Len(s)]

\* ---------------------------------------------------- upstream line shapes
\* StreamChunk / Choice / Delta (one JSON chunk of the direct dialect).
Choice(role, content, reasoning, finish) ==
    [role |-> role, content |-> content, reasoning |-> reasoning, finish |-> finish]

\* A line holding a JSON chunk, with or without the SSE "data: " prefix.
ChunkLine(pfx, id, mdl, choices, usage) ==
    [t |-> "chunk", pfx |-> pfx, id |-> id, model |-> mdl, choices |-> choices, usage |-> usage]

BlankLine == [t |-> "blank"]
\* The literal line "data: [DONE]".
DoneLine  == [t |-> "done"]
\* A line that is not JSON (with or without the prefix), or JSON of the wrong shape.
BadLine   == [t |-> "bad"]

\* Usage objects (Null when the chunk carries none).
Usage1 == "usage1"
Usage2 == "usage2"

\* The direct-dialect lines an upstream body is drawn from.
DirectLines ==
    { BlankLine, DoneLine, BadLine,
      ChunkLine(TRUE,  "c1", "m1", << Choice("", <<"Hel">>, <<>>, Null) >>, Null),
      ChunkLine(TRUE,  "c2", "m2", << Choice("", <<"lo">>, <<>>, Null) >>, Usage1),
      ChunkLine(TRUE,  "c1", "m1", << Choice("", <<>>, <<>>, "stop") >>, Usage2),
      ChunkLine(FALSE, "",   "",   << Choice("", <<"a">>, <<"r1">>, "length"),
                                      Choice("", <<"b">>, <<"r2">>, Null) >>, Null),
      ChunkLine(TRUE,  "",   "",   << >>, Null) }

\* A session-dialect line: a JSON object (it decodes both as SendMessageResponse
\* and as ChatSessionStreamEvent; typ is obj.type, "" when the object has none,
\* as the acknowledgment line has), a blank line or a line that is not JSON.
ObjLine(typ, content) == [t |-> "obj", typ |-> typ, content |-> content]

AckLine == ObjLine("", <<>>)

SessionLines ==
    { BlankLine, BadLine, AckLine,
      ObjLine("message_start", <<>>),
      ObjLine("message_delta", <<"Hel">>),
      ObjLine("message_delta", <<"lo">>),
      ObjLine("stop", <<>>),
      ObjLine("citation_info", <<"x">>) }

\* ------------------------------------------------------------- conversions
\* strings.TrimPrefix(line, "data: ") then json.Unmarshal into StreamChunk.
ParseChunk(line) ==
    IF line.t = "chunk"
    THEN [ok |-> TRUE, id |-> line.id, model |-> line.model,
          choices |-> line.choices, usage |-> line.usage]
    ELSE [ok |-> FALSE]

\* json.Unmarshal(line, &SendMessageResponse): any JSON object decodes.
ParseAck(line) == line.t = "obj"

\* json.Unmarshal(line, &ChatSessionStreamEvent).
ParseEvent(line) ==
    IF line.t = "obj"
    THEN [ok |-> TRUE, typ |-> line.typ, content |-> line.content]
    ELSE [ok |-> FALSE]

\* "data: " + json.Marshal(StreamChunk{...}) as the session translator writes it.
SessionChunkID == "chatcmpl-1"
SessionModel == "m1"

SessionFrame(choice) ==
    ChunkLine(TRUE, SessionChunkID, SessionModel, << choice >>, Null)

RoleFrame == SessionFrame(Choice("assistant", <<>>, <<>>, Null))
ContentFrame(content) == SessionFrame(Choice("", content, <<>>, Null))
StopFrame == SessionFrame(Choice("", <<>>, <<>>, "stop"))

\* ----------------------------------------------------------------- state
\* writeError(w, status, message, errType): the {error: {message, type}} envelope.
ErrorBody(code, errType) == [kind |-> "error", status |-> code, type |-> errType]

\* ChatCompletionResponse with its single choice.
Completion(id, mdl, content, reasoning, finish, usage) ==
    [kind |-> "chat.completion", id |-> id, model |-> mdl, content |-> content,
     reasoning |-> reasoning, finish |-> finish, usage |-> usage]

AggInit ==
    [id |-> "", model |-> "", content |-> <<>>, reasoningContent |-> <<>>,
     finishReason |-> "", usage |-> Null, chunkCount |-> 0, firstChunk |-> TRUE]

\* ------------------------------------------------- personas and models
\* Persona (the fields the gateway reads).
Persona(id, provider, version) ==
    [nil |-> FALSE, ID |-> id, LLMModelProviderOverride |-> provider,
     LLMModelVersionOverride |-> version]

NilPersona == [nil |-> TRUE]

\* The persona records an upstream persona list is drawn from.
PersonaPool ==
    { Persona(3, "acme", "m1"), Persona(4, "acme", "m1"),
      Persona(0, "orion", "m2"), Persona(5, "", "") }

\* Upstream persona lists hold at most MaxPersonas records.
MaxPersonas == 2

\* Persona ids are unique within one upstream list.
PersonaLists ==
    UNION { { l \in [1..n -> PersonaPool] :
                \A i, j \in 1..n : l[i].ID = l[j].ID => i = j } : n \in 0..MaxPersonas }

\* The keys modelToPersona can hold.
OverrideIDs == { q.LLMModelVersionOverride : q \in PersonaPool } \ {""}

\* Model (handler.Model; Object and Created are not read by the routing).
Model(id, ownedBy, apiProvider, category, pid) ==
    [nil |-> FALSE, ID |-> id, OwnedBy |-> ownedBy, APIProvider |-> apiProvider,
     Category |-> category, PersonaID |-> pid]

NilModel == [nil |-> TRUE]

\* InternalModelConfig: one entry of models.json.
Item(id, provider, apiProvider, pid) ==
    [ID |-> id, Provider |-> provider, APIProvider |-> apiProvider, PersonaID |-> pid]

\* The models.json contents a load is drawn from: the AO and kO lists are empty
\* or hold one entry, the CO list holds one entry.
ModelFiles ==
    [ AO : { <<>>, << Item("m1", "acme", "", 0) >>, << Item("m1", "acme", "", 7) >>,
             << Item("m2", "orion", "p5", 0) >> },
      kO : { <<>>, << Item("m1", "acme", "p5", 7) >> },
      CO : { << Item("m2", "orion", "p7", 0) >> } ]

\* The model identifiers a client asks for ("zz" is in no table).
RequestModels == {"m1", "m2", "zz"}

\* ------------------------------------------------------- the proxy pool
\* cfg.Proxies: the pool, in configuration order.
ProxyURLs == << "http://p1", "http://p2" >>
\* The positions of c.proxies.
Pool == 1..Len(proxies)
Calls == 1..NumCalls

\* The goroutines that dispatch at the same time in the runs that follow
\* proxyMu.
NumDispatchers == 2
Dispatchers == 1..NumDispatchers

\* A goroutine at the head of Do's loop, and a checkProxy not yet started.
DispatcherIdle ==
    [pc |-> "loop", i |-> 0, p |-> 0, ctx |-> "live", tries |-> 0, wrote |-> {}]
ProbeIdle == [pc |-> "idle", wrote |-> {}]

\* No call of Do has been made and no probe issued.
CallsIdle ==
    /\ dpc = [d \in Calls |-> "idle"]
    /\ di = [d \in Calls |-> 0]
    /\ dproxy = [d \in Calls |-> 0]
    /\ dlog = [d \in Calls |-> <<>>]
    /\ dres = [d \in Calls |-> NoResponse]
    /\ ppc = [p \in Pool |-> "idle"]
    /\ picks = <<>>
    /\ probes = 0
    /\ returned = 0
    /\ proxyMu = [w |-> FALSE, r |-> 0]
    /\ ld = [t \in Dispatchers |-> DispatcherIdle]
    /\ lp = [p \in Pool |-> ProbeIdle]

\* The threshold checkProxy compares the failure counter with.
ProbeFailLimit == 3

\* NewClient: every pool entry starts healthy with no failure counted.
ProxyInit ==
    /\ proxies = (IF proxyEnabled THEN ProxyURLs ELSE <<>>)
    /\ Healthy = [p \in Pool |-> TRUE]
    /\ FailCount = [p \in Pool |-> 0]
    /\ currentIdx = <<0, 0>>
    /\ probeFails = [p \in Pool |-> 0]
    /\ streak = [p \in Pool |-> 0]
    /\ CallsIdle

\* The pool after the health check has swept it k times before the first
\* request came, the probe of the first entry failing every time and the
\* probes of the other entries succeeding: checkProxy has counted k failures
\* of the first entry and marked it unhealthy at the third.
PoolAfterSweeps(k) ==
    /\ proxies = (IF proxyEnabled THEN ProxyURLs ELSE <<>>)
    /\ Healthy = [p \in Pool |-> p # 1 \/ k < ProbeFailLimit]
    /\ FailCount = [p \in Pool |-> IF p = 1 THEN k ELSE 0]
    /\ currentIdx = <<0, 0>>
    /\ probeFails = [p \in Pool |-> IF p = 1 THEN k ELSE 0]
    /\ streak = [p \in Pool |-> IF p = 1 THEN k ELSE 0]
    /\ CallsIdle

ProxyIdle ==
    /\ proxyEnabled = FALSE
    /\ retryCount = 0
    /\ traffic = [callers |-> 0, repeats |-> 0, probes |-> 0]
    /\ ProxyInit

Readers == 1..NumReaders

\* A refresh that is not running; a reader that has not read.
RefresherIdle == [pc |-> "idle", err |-> FALSE, got |-> <<>>, i |-> 0]
ReaderIdle == [pc |-> "idle", op |-> "none", id |-> "", result |-> NoResponse]

\* The caches and the request handler before main has run.
CacheIdle ==
    /\ boot = "persona"
    /\ cachedAPIKeyOnce = FALSE
    /\ cachedAPIKey = ""
    /\ keyCalls = << >>
    /\ personas = <<>>
    /\ modelToPersona = [k \in OverrideIDs |-> NilPersona]
    /\ models = <<>>
    /\ pcMu = [w |-> FALSE, r |-> 0]
    /\ pr = RefresherIdle
    /\ mr = RefresherIdle
    /\ rd = [r \in Readers |-> ReaderIdle]
    /\ hist = [pub |-> <<>>, loaded |-> FALSE]

ReqIdle ==
    /\ rpc = "idle"
    /\ chatReq = [body |-> "none", Model |-> "", Stream |-> FALSE]
    /\ model = NilModel
    /\ personaID = 0
    /\ sessionID = ""
    /\ apiKey = << >>
    /\ inbound = NoRequest
    /\ served = "none"
    /\ messages = <<>>
    /\ message = <<>>
    /\ route = "none"
    /\ calls = <<>>
    /\ reply = NoResponse

TransIdle ==
    /\ tpc = "idle"
    /\ dialect = "direct"
    /\ stream = FALSE
    /\ lines = <<>>
    /\ scanErr = FALSE
    /\ written = <<>>
    /\ flushed = 0
    /\ status = 0
    /\ agg = AggInit
    /\ response = NoResponse

TransInit ==
    /\ CacheIdle /\ envKey = ""
    /\ ReqIdle
    /\ ProxyIdle
    /\ tpc = "start"
    /\ dialect \in {"direct", "session", "responses"}
    /\ stream \in (IF dialect = "responses" THEN {FALSE} ELSE BOOLEAN)
    /\ lines = <<>>
    /\ scanErr = FALSE
    /\ written = <<>>
    /\ flushed = 0
    /\ status = 0
    /\ agg = AggInit
    /\ response = NoResponse

\* ----------------------------------------------- handleStreamResponse
\* Headers and WriteHeader(resp.StatusCode) before the scan loop; the handler is
\* only entered with an upstream status of 200, and the ResponseWriter is always
\* middleware.responseWriter, which implements http.Flusher.
handleStreamResponseBegin ==
    /\ tpc = "start" /\ dialect = "direct" /\ stream
    /\ status' = 200
    /\ tpc' = "scan"
    /\ UNCHANGED <<cacheVars, reqVars, proxyVars>>
    /\ UNCHANGED <<dialect, stream, lines, scanErr, written, flushed, agg, response>>

\* One iteration of the scan loop.
handleStreamResponseLine ==
    /\ tpc = "scan" /\ dialect = "direct" /\ stream
    /\ Len(lines) < MaxLines
    /\ \E line \in DirectLines :
        /\ lines' = Append(lines, line)
        /\ IF line.t = "blank"
           THEN UNCHANGED <<written, flushed, agg>>
           ELSE /\ written' = Append(written, line)
                /\ flushed' = Len(written')
                /\ agg' = [agg EXCEPT !.chunkCount = @ + 1]
    /\ UNCHANGED <<cacheVars, reqVars, proxyVars>>
    /\ UNCHANGED <<tpc, dialect, stream, scanErr, status, response>>

\* scanner.Scan() returned false: end of body or a read error.
handleStreamResponseEnd ==
    /\ tpc = "scan" /\ dialect = "direct" /\ stream
    /\ \E err \in BOOLEAN : scanErr' = err
    /\ tpc' = "done"
    /\ UNCHANGED <<cacheVars, reqVars, proxyVars>>
    /\ UNCHANGED <<dialect, stream, lines, written, flushed, status, agg, response>>

\* ----------------------------------------------- handleNonStreamResponse
\* The choices loop of one chunk: content and reasoning are appended choice by
\* choice, a non-nil finish_reason overwrites the previous one.
RECURSIVE FoldChoices(_, _)
FoldChoices(a, choices) ==
    IF choices = <<>> THEN a
    ELSE LET c == Head(choices) IN
         FoldChoices([a EXCEPT !.content = @ \o c.content,
                               !.reasoningContent = @ \o c.reasoning,
                               !.finishReason = IF c.finish # Null THEN c.finish ELSE @],
                     Tail(choices))

\* AggregateLine with the usage pointer overwritten by every chunk, nil included.
AggregateLineUsageOverwritten(a, line) ==
    IF line.t = "blank" \/ line.t = "done" THEN a
    ELSE LET chunk == ParseChunk(line) IN
         IF ~chunk.ok THEN a
         ELSE LET a1 == [a EXCEPT !.id = IF @ = "" THEN chunk.id ELSE @,
                                  !.model = IF @ = "" THEN chunk.model ELSE @]
                  a2 == FoldChoices(a1, chunk.choices)
              IN [a2 EXCEPT !.usage = chunk.usage, !.chunkCount = @ + 1]

\* AggregateLine with id and model taken from every chunk: the last one wins.
AggregateLineLastIdWins(a, line) ==
    IF line.t = "blank" \/ line.t = "done" THEN a
    ELSE LET chunk == ParseChunk(line) IN
         IF ~chunk.ok THEN a
         ELSE LET a1 == [a EXCEPT !.id = chunk.id, !.model = chunk.model]
                  a2 == FoldChoices(a1, chunk.choices)
              IN [a2 EXCEPT !.usage = IF chunk.usage # Null THEN chunk.usage ELSE @,
                            !.chunkCount = @ + 1]

\* The body of the scan loop for one line.
AggregateLine(a, line) ==
    IF line.t = "blank" \/ line.t = "done" THEN a
    ELSE LET chunk == ParseChunk(line) IN
         IF ~chunk.ok THEN a
         ELSE LET a1 == [a EXCEPT !.id = IF @ = "" THEN chunk.id ELSE @,
                                  !.model = IF @ = "" THEN chunk.model ELSE @]
                  a2 == FoldChoices(a1, chunk.choices)
              IN [a2 EXCEPT !.usage = IF chunk.usage # Null THEN chunk.usage ELSE @,
                            !.chunkCount = @ + 1]

handleNonStreamResponseLine ==
    /\ tpc = "start" /\ dialect = "direct" /\ ~stream
    /\ Len(lines) < MaxLines
    /\ \E line \in DirectLines :
        /\ lines' = Append(lines, line)
        /\ agg' = AggregateLine(agg, line)
    /\ UNCHANGED <<cacheVars, reqVars, proxyVars>>
    /\ UNCHANGED <<tpc, dialect, stream, scanErr, written, flushed, status, response>>

\* handleNonStreamResponseEnd answering 502 when nothing was accumulated.
handleNonStreamResponseEndEmptyRefused ==
    /\ tpc = "start" /\ dialect = "direct" /\ ~stream
    /\ \E err \in BOOLEAN :
        /\ scanErr' = err
        /\ IF err \/ (agg.content = <<>> /\ agg.reasoningContent = <<>>)
           THEN /\ status' = 502
                /\ response' = ErrorBody(502, "server_error")
           ELSE /\ status' = 200
                /\ response' = Completion(agg.id, agg.model, agg.content,
                                          agg.reasoningContent, agg.finishReason, agg.usage)
    /\ tpc' = "done"
    /\ UNCHANGED <<cacheVars, reqVars, proxyVars>>
    /\ UNCHANGED <<dialect, stream, lines, written, flushed, agg>>

\* After the loop: a read error is answered 502, otherwise the assembled message
\* is encoded with status 200.
handleNonStreamResponseEnd ==
    /\ tpc = "start" /\ dialect = "direct" /\ ~stream
    /\ \E err \in BOOLEAN :
        /\ scanErr' = err
        /\ IF err
           THEN /\ status' = 502
                /\ response' = ErrorBody(502, "server_error")
           ELSE /\ status' = 200
                /\ response' = Completion(agg.id, agg.model, agg.content,
                                          agg.reasoningContent, agg.finishReason, agg.usage)
    /\ tpc' = "done"
    /\ UNCHANGED <<cacheVars, reqVars, proxyVars>>
    /\ UNCHANGED <<dialect, stream, lines, written, flushed, agg>>

\* ------------------------------------------ Handler.Responses, the body
\* ResponsesResponse with its single output message.
ResponsesResponse(id, mdl, text, usage) ==
    [kind |-> "response", ID |-> << "resp_", id >>, Status |-> "completed",
     Model |-> mdl, Text |-> text, Usage |-> usage]

\* The content deltas of the choices of one chunk appended to the text.
RECURSIVE FoldContent(_, _)
FoldContent(a, choices) ==
    IF choices = <<>> THEN a
    ELSE FoldContent([a EXCEPT !.content = @ \o Head(choices).content], Tail(choices))

\* The body of the scan loop of Responses for one line.
ResponsesAggregateLine(a, line) ==
    IF line.t = "blank" \/ line.t = "done" THEN a
    ELSE LET chunk == ParseChunk(line) IN
         IF ~chunk.ok THEN a
         ELSE LET a1 == [a EXCEPT !.id = IF @ = "" THEN chunk.id ELSE @,
                                  !.model = IF @ = "" THEN chunk.model ELSE @]
                  a2 == FoldContent(a1, chunk.choices)
              IN [a2 EXCEPT !.usage = IF chunk.usage # Null THEN chunk.usage ELSE @]

ResponsesLine ==
    /\ tpc = "start" /\ dialect = "responses"
    /\ Len(lines) < MaxLines
    /\ \E line \in DirectLines :
        /\ lines' = Append(lines, line)
        /\ agg' = ResponsesAggregateLine(agg, line)
    /\ UNCHANGED <<cacheVars, reqVars, proxyVars>>
    /\ UNCHANGED <<tpc, dialect, stream, scanErr, written, flushed, status, response>>

\* After the loop: the response object is built from what was accumulated and
\* encoded with status 200; scanner.Err() is not consulted, the loop ends the
\* same way on end of body and on a read error.
ResponsesEnd ==
    /\ tpc = "start" /\ dialect = "responses"
    /\ \E err \in BOOLEAN : scanErr' = err
    /\ status' = 200
    /\ response' = ResponsesResponse(agg.id, agg.model, agg.content, agg.usage)
    /\ tpc' = "done"
    /\ UNCHANGED <<cacheVars, reqVars, proxyVars>>
    /\ UNCHANGED <<dialect, stream, lines, written, flushed, agg>>

\* ----------------------------------------------- HandleChatSessionStream
\* EventOut with the content of an event of unknown type added to the text.
EventOutUnknownAsText(a, event, strm) ==
    CASE event.typ = "message_start" ->
            [agg |-> a, out |-> IF strm THEN << RoleFrame >> ELSE <<>>]
      [] event.typ = "message_delta" ->
            [agg |-> [a EXCEPT !.content = @ \o event.content, !.chunkCount = @ + 1],
             out |-> IF strm THEN << ContentFrame(event.content) >> ELSE <<>>]
      [] event.typ = "stop" ->
            [agg |-> a, out |-> IF strm THEN << StopFrame, DoneLine >> ELSE <<>>]
      [] OTHER -> [agg |-> [a EXCEPT !.content = @ \o event.content], out |-> <<>>]

\* The frames one decoded event makes the loop write.
EventOut(a, event, strm) ==
    CASE event.typ = "message_start" ->
            [agg |-> a, out |-> IF strm THEN << RoleFrame >> ELSE <<>>]
      [] event.typ = "message_delta" ->
            [agg |-> [a EXCEPT !.content = @ \o event.content, !.chunkCount = @ + 1],
             out |-> IF strm THEN << ContentFrame(event.content) >> ELSE <<>>]
      [] event.typ = "stop" ->
            [agg |-> a, out |-> IF strm THEN << StopFrame, DoneLine >> ELSE <<>>]
      [] OTHER -> [agg |-> a, out |-> <<>>]

\* SessionLine with firstChunk cleared only by a line that decodes as the
\* acknowledgment: after a malformed first line the next line is swallowed.
SessionLineAckPending(a, line, strm) ==
    IF line.t = "blank" THEN [agg |-> a, out |-> <<>>]
    ELSE IF a.firstChunk /\ ParseAck(line)
         THEN [agg |-> [a EXCEPT !.firstChunk = FALSE], out |-> <<>>]
         ELSE LET event == ParseEvent(line) IN
              IF ~event.ok THEN [agg |-> a, out |-> <<>>]
              ELSE EventOut(a, event, strm)

\* SessionLine with firstChunk never cleared: every JSON object is swallowed
\* as the acknowledgment.
SessionLineAckNeverCleared(a, line, strm) ==
    IF line.t = "blank" THEN [agg |-> a, out |-> <<>>]
    ELSE IF a.firstChunk /\ ParseAck(line) THEN [agg |-> a, out |-> <<>>]
         ELSE LET event == ParseEvent(line) IN
              IF ~event.ok THEN [agg |-> a, out |-> <<>>]
              ELSE EventOut(a, event, strm)

\* The body of the scan loop for one line: the accumulators after it and the
\* frames it writes (written and flushed before the next scanner.Scan()).
SessionLine(a, line, strm) ==
    IF line.t = "blank" THEN [agg |-> a, out |-> <<>>]
    ELSE LET a1 == [a EXCEPT !.firstChunk = FALSE] IN
         IF a.firstChunk /\ ParseAck(line) THEN [agg |-> a1, out |-> <<>>]
         ELSE LET event == ParseEvent(line) IN
              IF ~event.ok THEN [agg |-> a1, out |-> <<>>]
              ELSE EventOut(a1, event, strm)

\* Headers and WriteHeader(200) before the scan loop, when streaming.
HandleChatSessionStreamBegin ==
    /\ tpc = "start" /\ dialect = "session"
    /\ status' = IF stream THEN 200 ELSE status
    /\ tpc' = "scan"
    /\ UNCHANGED <<cacheVars, reqVars, proxyVars>>
    /\ UNCHANGED <<dialect, stream, lines, scanErr, written, flushed, agg, response>>

HandleChatSessionStreamLine ==
    /\ tpc = "scan" /\ dialect = "session"
    /\ Len(lines) < MaxLines
    /\ \E line \in SessionLines :
        LET r == SessionLine(agg, line, stream) IN
        /\ lines' = Append(lines, line)
        /\ agg' = r.agg
        /\ written' = written \o r.out
        /\ flushed' = IF r.out = <<>> THEN flushed ELSE Len(written')
    /\ UNCHANGED <<cacheVars, reqVars, proxyVars>>
    /\ UNCHANGED <<tpc, dialect, stream, scanErr, status, response>>

\* After the loop: a read error returns without writing anything; otherwise the
\* non-streaming exchange encodes the assembled message with status 200.
HandleChatSessionStreamEnd ==
    /\ tpc = "scan" /\ dialect = "session"
    /\ \E err \in BOOLEAN :
        /\ scanErr' = err
        /\ IF ~err /\ ~stream
           THEN /\ status' = 200
                /\ response' = Completion(SessionChunkID, SessionModel, agg.content,
                                          <<>>, "stop", Null)
           ELSE UNCHANGED <<status, response>>
    /\ tpc' = "done"
    /\ UNCHANGED <<cacheVars, reqVars, proxyVars>>
    /\ UNCHANGED <<dialect, stream, lines, written, flushed, agg>>

TransNext ==
    \/ handleStreamResponseBegin
    \/ handleStreamResponseLine
    \/ handleStreamResponseEnd
    \/ handleNonStreamResponseLine
    \/ handleNonStreamResponseEnd
    \/ HandleChatSessionStreamBegin
    \/ HandleChatSessionStreamLine
    \/ HandleChatSessionStreamEnd
    \/ ResponsesLine
    \/ ResponsesEnd

SpecTranslate == TransInit /\ [][TransNext]_vars

\* ------------------------------------------------------- PersonaCache
\* The modelToPersona map refresh builds: the last persona of the list with a
\* given override wins.
BuildModelToPersona(list) ==
    [k \in OverrideIDs |->
        LET hits == {i \in 1..Len(list) : list[i].LLMModelVersionOverride = k} IN
        IF hits = {} THEN NilPersona
        ELSE list[CHOOSE i \in hits : \A j \in hits : j <= i]]

\* What fetchPersonas / loadModels return: an error, or the decoded value.
Failed == [err |-> TRUE]
Fetched(v) == [err |-> FALSE, value |-> v]

\* PersonaCache.refresh with the outcome of fetchPersonas.
PersonaRefresh(fetch) ==
    IF fetch.err
    THEN UNCHANGED <<personas, modelToPersona>>
    ELSE /\ personas' = fetch.value
         /\ modelToPersona' = BuildModelToPersona(fetch.value)

\* GetPersonaForModel.
GetPersonaForModel(id) ==
    IF id \in DOMAIN modelToPersona THEN modelToPersona[id] ELSE NilPersona

\* PersonaCache.getModels: one model per override identifier, first seen first.
RECURSIVE PersonaModels(_, _)
PersonaModels(list, seen) ==
    IF list = <<>> THEN <<>>
    ELSE LET q == Head(list) IN
         IF q.LLMModelVersionOverride = "" \/ q.LLMModelVersionOverride \in seen
         THEN PersonaModels(Tail(list), seen)
         ELSE << Model(q.LLMModelVersionOverride, q.LLMModelProviderOverride, "", "", 0) >>
              \o PersonaModels(Tail(list), seen \cup {q.LLMModelVersionOverride})

GetModelsFromPersonas == PersonaModels(personas, {})

\* -------------------------------------------------------- ModelsCache
\* addModels(items, category) of loadModels.
AddModels(items, category) ==
    [i \in 1..Len(items) |->
        Model(items[i].ID, items[i].Provider, items[i].APIProvider, category,
              items[i].PersonaID)]

\* ModelsCache.loadModels on a readable, well-formed models.json.
LoadModels(file) ==
    AddModels(file.AO, "AO") \o AddModels(file.kO, "kO") \o AddModels(file.CO, "CO")

\* ModelsCache.refresh with the outcome of loadModels.
ModelsRefresh(load) ==
    IF ~load.err
    THEN models' = LoadModels(load.value)
    ELSE IF Len(models) > 0
         THEN UNCHANGED models
         ELSE models' = GetModelsFromPersonas

\* ------------------------------------------------ config.GetUpstreamAPIKey
\* decryptAPIKey: the built-in key, the same non-empty string every time.
DerivedKey == "derived-key"

\* What cachedAPIKeyOnce.Do leaves in cachedAPIKey when GetUpstreamAPIKey is
\* called with the environment value e: the function handed to Do runs only
\* on the first call of either branch, and only the one of the second branch
\* assigns the variable.
CachedAfter(e, once, cached) ==
    IF e = "" /\ ~once THEN DerivedKey ELSE cached

\* What the call returns: the environment value when it is not empty, else
\* cachedAPIKey as the second Do has left it.
KeyReturned(e, once, cached) ==
    IF e # "" THEN e ELSE CachedAfter(e, once, cached)

\* The value a call returns in the current state.
GetUpstreamAPIKey == KeyReturned(envKey, cachedAPIKeyOnce, cachedAPIKey)

\* What a call leaves behind.
GetUpstreamAPIKeyDo ==
    /\ cachedAPIKeyOnce' = TRUE
    /\ cachedAPIKey' = CachedAfter(envKey, cachedAPIKeyOnce, cachedAPIKey)

\* ModelsCache.GetModel / GetModelByID: the first entry with the identifier.
GetModelByID(id) ==
    LET hits == {i \in 1..Len(models) : models[i].ID = id} IN
    IF hits = {} THEN NilModel
    ELSE models[CHOOSE i \in hits : \A j \in hits : i <= j]

\* main: InitPersonaCache, then InitModelsCache, then the server is started.
InitPersonaCache ==
    /\ boot = "persona"
    /\ \E fetch \in {Failed} \cup {Fetched(l) : l \in PersonaLists} : PersonaRefresh(fetch)
    /\ boot' = "models"
    /\ UNCHANGED <<envKey, keyCalls, models, syncVars, reqVars, transVars, proxyVars>>
    /\ GetUpstreamAPIKeyDo

InitModelsCache ==
    /\ boot = "models"
    /\ \E load \in {Failed} \cup {Fetched(f) : f \in ModelFiles} : ModelsRefresh(load)
    /\ boot' = "serving"
    /\ UNCHANGED <<envKey, credVars, personas, modelToPersona, syncVars, reqVars, transVars, proxyVars>>

\* One tick of PersonaCache.refreshLoop.
personaRefreshLoop ==
    /\ boot = "serving"
    /\ \E fetch \in {Failed} \cup {Fetched(l) : l \in PersonaLists} : PersonaRefresh(fetch)
    /\ UNCHANGED <<boot, envKey, keyCalls, models, syncVars, reqVars, transVars, proxyVars>>
    /\ GetUpstreamAPIKeyDo

\* One tick of ModelsCache.refreshLoop.
modelsRefreshLoop ==
    /\ boot = "serving"
    /\ \E load \in {Failed} \cup {Fetched(f) : f \in ModelFiles} : ModelsRefresh(load)
    /\ UNCHANGED <<boot, envKey, credVars, personas, modelToPersona, syncVars, reqVars, transVars, proxyVars>>

\* ------------------------------------- the caches under their locks
\* The same refreshes statement by statement, with the readers that run
\* beside them. PersonaCache.refresh writes its three fields one after the
\* other while it holds pc.mu; ModelsCache.refresh replaces mc.models in one
\* assignment under mc.mu.
\* What the persona API answers in these runs: nothing, one persona, two
\* personas with the same override, or two of which one has no override.
FetchedLists ==
    { <<>>, << Persona(3, "acme", "m1") >>,
      << Persona(3, "acme", "m1"), Persona(4, "acme", "m1") >>,
      << Persona(0, "orion", "m2"), Persona(5, "", "") >> }
\* The models.json contents found in these runs.
LoadedFiles ==
    { [AO |-> << Item("m1", "acme", "", 7) >>, kO |-> <<>>,
       CO |-> << Item("m2", "orion", "p7", 0) >>] }
Fetches == {Failed} \cup {Fetched(l) : l \in FetchedLists}
Loads == {Failed} \cup {Fetched(f) : f \in LoadedFiles}

\* The identifiers a reader looks up ("zz" is in no cache).
LookupIDs == {"m1", "m2", "zz"}

\* InitPersonaCache and InitModelsCache call refresh once before main goes on.
AfterPersonaRefresh == IF boot = "persona" THEN "models" ELSE boot
AfterModelsRefresh == IF boot = "models" THEN "serving" ELSE boot

\* PersonaCache.refresh: fetchPersonas, and the return on error.
personaRefreshFetch ==
    /\ pr.pc = "idle"
    /\ \E fetch \in Fetches :
        IF fetch.err
        THEN /\ pr' = [RefresherIdle EXCEPT !.err = TRUE]
             /\ boot' = AfterPersonaRefresh
        ELSE /\ pr' = [pc |-> "lock", err |-> FALSE, got |-> fetch.value, i |-> 0]
             /\ boot' = boot
    /\ UNCHANGED <<envKey, keyCalls, personas, modelToPersona, models, pcMu, mr, rd, hist>>
    /\ UNCHANGED <<reqVars, transVars, proxyVars>>
    /\ GetUpstreamAPIKeyDo

\* pc.mu.Lock().
personaRefreshLock ==
    /\ pr.pc = "lock"
    /\ ~pcMu.w /\ pcMu.r = 0
    /\ pcMu' = [pcMu EXCEPT !.w = TRUE]
    /\ pr' = [pr EXCEPT !.pc = "set"]
    /\ UNCHANGED <<boot, envKey, credVars, personas, modelToPersona, models, mr, rd, hist>>
    /\ UNCHANGED <<reqVars, transVars, proxyVars>>

\* pc.personas = personas.
personaRefreshSet ==
    /\ pr.pc = "set"
    /\ personas' = pr.got
    /\ pr' = [pr EXCEPT !.pc = "make"]
    /\ UNCHANGED <<boot, envKey, credVars, modelToPersona, models, pcMu, mr, rd, hist>>
    /\ UNCHANGED <<reqVars, transVars, proxyVars>>

\* pc.modelToPersona = make(map[string]*Persona).
personaRefreshMake ==
    /\ pr.pc = "make"
    /\ modelToPersona' = [k \in OverrideIDs |-> NilPersona]
    /\ pr' = [pr EXCEPT !.pc = "put", !.i = 1]
    /\ UNCHANGED <<boot, envKey, credVars, personas, models, pcMu, mr, rd, hist>>
    /\ UNCHANGED <<reqVars, transVars, proxyVars>>

\* One round of the loop over personas: the entry's override, when it has
\* one, is mapped to the entry.
personaRefreshPut ==
    /\ pr.pc = "put"
    /\ pr.i <= Len(pr.got)
    /\ LET q == pr.got[pr.i] IN
       modelToPersona' =
           IF q.LLMModelVersionOverride # ""
           THEN [modelToPersona EXCEPT ![q.LLMModelVersionOverride] = q]
           ELSE modelToPersona
    /\ pr' = [pr EXCEPT !.i = @ + 1]
    /\ UNCHANGED <<boot, envKey, credVars, personas, models, pcMu, mr, rd, hist>>
    /\ UNCHANGED <<reqVars, transVars, proxyVars>>

\* pc.mu.Unlock() after the loop: the generation is published.
personaRefreshUnlock ==
    /\ pr.pc = "put"
    /\ pr.i > Len(pr.got)
    /\ pcMu' = [pcMu EXCEPT !.w = FALSE]
    /\ pr' = RefresherIdle
    /\ hist' = [hist EXCEPT !.pub = personas]
    /\ boot' = AfterPersonaRefresh
    /\ UNCHANGED <<envKey, credVars, personas, modelToPersona, models, mr, rd>>
    /\ UNCHANGED <<reqVars, transVars, proxyVars>>

\* ModelsCache.refresh: loadModels.
modelsRefreshLoad ==
    /\ mr.pc = "idle"
    /\ boot \in {"models", "serving"}
    /\ \E load \in Loads :
        IF load.err
        THEN /\ mr' = [pc |-> "check", err |-> TRUE, got |-> <<>>, i |-> 0]
             /\ hist' = hist
        ELSE /\ mr' = [pc |-> "store", err |-> FALSE,
                       got |-> LoadModels(load.value), i |-> 0]
             /\ hist' = [hist EXCEPT !.loaded = TRUE]
    /\ UNCHANGED <<boot, envKey, credVars, personas, modelToPersona, models, pcMu, pr, rd>>
    /\ UNCHANGED <<reqVars, transVars, proxyVars>>

\* On error: hasModels := len(mc.models) > 0, and the return when it has.
modelsRefreshHasModelsIgnored ==
    /\ mr.pc = "check"
    /\ mr' = [mr EXCEPT !.pc = "fallback"]
    /\ boot' = boot
    /\ UNCHANGED <<envKey, credVars, personas, modelToPersona, models, pcMu, pr, rd, hist>>
    /\ UNCHANGED <<reqVars, transVars, proxyVars>>

modelsRefreshHasModels ==
    /\ mr.pc = "check"
    /\ IF Len(models) > 0
       THEN /\ mr' = [mr EXCEPT !.pc = "idle"]
            /\ boot' = AfterModelsRefresh
       ELSE /\ mr' = [mr EXCEPT !.pc = "fallback"]
            /\ boot' = boot
    /\ UNCHANGED <<envKey, credVars, personas, modelToPersona, models, pcMu, pr, rd, hist>>
    /\ UNCHANGED <<reqVars, transVars, proxyVars>>

\* personaModels := GetModelsFromPersonas(), read under pc.mu.RLock().
modelsRefreshFallback ==
    /\ mr.pc = "fallback"
    /\ ~pcMu.w
    /\ mr' = [mr EXCEPT !.pc = "store", !.got = GetModelsFromPersonas]
    /\ UNCHANGED <<boot, envKey, credVars, personas, modelToPersona, models, pcMu, pr, rd, hist>>
    /\ UNCHANGED <<reqVars, transVars, proxyVars>>

\* mc.mu.Lock(); mc.models = models; mc.mu.Unlock().
modelsRefreshStore ==
    /\ mr.pc = "store"
    /\ models' = mr.got
    /\ mr' = [mr EXCEPT !.pc = "idle", !.got = <<>>]
    /\ boot' = AfterModelsRefresh
    /\ UNCHANGED <<envKey, credVars, personas, modelToPersona, pcMu, pr, rd, hist>>
    /\ UNCHANGED <<reqVars, transVars, proxyVars>>

\* What a reader got.
Listed(ms) == [kind |-> "models", v |-> ms]
Found(x) == [kind |-> "one", v |-> x]

\* GetAvailableModels -> ModelsCache.GetModels: a copy of the table.
GetAvailableModels == models

\* Handler.Models and Handler.GetModel read the table under mc.mu.RLock().
readModels(r) ==
    /\ boot = "serving"
    /\ rd[r].pc = "idle"
    /\ \/ rd' = [rd EXCEPT ![r] = [pc |-> "done", op |-> "GetModels", id |-> "",
                                   result |-> Listed(GetAvailableModels)]]
       \/ \E id \in LookupIDs :
            rd' = [rd EXCEPT ![r] = [pc |-> "done", op |-> "GetModel", id |-> id,
                                     result |-> Found(GetModelByID(id))]]
    /\ UNCHANGED <<boot, envKey, credVars, personas, modelToPersona, models, pcMu, pr, mr, hist>>
    /\ UNCHANGED <<reqVars, transVars, proxyVars>>

\* pc.mu.RLock() of GetPersonaForModel and getModels.
readRLockUnguarded(r) ==
    /\ boot = "serving"
    /\ rd[r].pc = "idle"
    /\ pcMu' = [pcMu EXCEPT !.r = @ + 1]
    /\ \/ rd' = [rd EXCEPT ![r] = [pc |-> "rlocked", op |-> "getModels", id |-> "",
                                   result |-> NoResponse]]
       \/ \E id \in LookupIDs :
            rd' = [rd EXCEPT ![r] = [pc |-> "rlocked", op |-> "GetPersonaForModel",
                                     id |-> id, result |-> NoResponse]]
    /\ UNCHANGED <<boot, envKey, credVars, personas, modelToPersona, models, pr, mr, hist>>
    /\ UNCHANGED <<reqVars, transVars, proxyVars>>

readRLock(r) ==
    /\ boot = "serving"
    /\ rd[r].pc = "idle"
    /\ ~pcMu.w
    /\ pcMu' = [pcMu EXCEPT !.r = @ + 1]
    /\ \/ rd' = [rd EXCEPT ![r] = [pc |-> "rlocked", op |-> "getModels", id |-> "",
                                   result |-> NoResponse]]
       \/ \E id \in LookupIDs :
            rd' = [rd EXCEPT ![r] = [pc |-> "rlocked", op |-> "GetPersonaForModel",
                                     id |-> id, result |-> NoResponse]]
    /\ UNCHANGED <<boot, envKey, credVars, personas, modelToPersona, models, pr, mr, hist>>
    /\ UNCHANGED <<reqVars, transVars, proxyVars>>

\* The read itself: pc.modelToPersona[model], or the loop of getModels.
readPersonas(r) ==
    /\ rd[r].pc = "rlocked"
    /\ rd' = [rd EXCEPT ![r].pc = "got",
                        ![r].result =
                            IF rd[r].op = "getModels"
                            THEN Listed(GetModelsFromPersonas)
                            ELSE Found(GetPersonaForModel(rd[r].id))]
    /\ UNCHANGED <<boot, envKey, credVars, personas, modelToPersona, models, pcMu, pr, mr, hist>>
    /\ UNCHANGED <<reqVars, transVars, proxyVars>>

\* The deferred pc.mu.RUnlock().
readRUnlock(r) ==
    /\ rd[r].pc = "got"
    /\ pcMu' = [pcMu EXCEPT !.r = @ - 1]
    /\ rd' = [rd EXCEPT ![r].pc = "done"]
    /\ UNCHANGED <<boot, envKey, credVars, personas, modelToPersona, models, pr, mr, hist>>
    /\ UNCHANGED <<reqVars, transVars, proxyVars>>

\* The caller has used what it read; the reader serves its next request.
readAgain(r) ==
    /\ rd[r].pc = "done"
    /\ rd' = [rd EXCEPT ![r] = ReaderIdle]
    /\ UNCHANGED <<boot, envKey, credVars, personas, modelToPersona, models, pcMu, pr, mr, hist>>
    /\ UNCHANGED <<reqVars, transVars, proxyVars>>

\* main starts with both caches empty; the caches refresh and are read.
CacheInit ==
    /\ CacheIdle /\ envKey = ""
    /\ ReqIdle
    /\ TransIdle
    /\ ProxyIdle

CacheNext ==
    \/ personaRefreshFetch
    \/ personaRefreshLock
    \/ personaRefreshSet
    \/ personaRefreshMake
    \/ personaRefreshPut
    \/ personaRefreshUnlock
    \/ modelsRefreshLoad
    \/ modelsRefreshHasModels
    \/ modelsRefreshFallback
    \/ modelsRefreshStore
    \/ \E r \in Readers : readModels(r)
    \/ \E r \in Readers : readRLock(r)
    \/ \E r \in Readers : readPersonas(r)
    \/ \E r \in Readers : readRUnlock(r)
    \/ \E r \in Readers : readAgain(r)

SpecCache == CacheInit /\ [][CacheNext]_vars

\* --------------------------------------------------- Handler.ChatCompletions

\* What the upstream answers: a transport error or an HTTP status.
Outcomes == {"err", "200", "429", "503"}
StatusOf(outcome) ==
    CASE outcome = "err" -> 0
      [] outcome = "200" -> 200
      [] outcome = "429" -> 429
      [] OTHER -> 503

\* The request bodies a client sends: unreadable, not JSON for a ChatRequest,
\* the JSON literal null, or an object naming a model and a stream flag.
\* ---------------------------------------------------------------------------
\* The message history and its flattening.  A string is a sequence of pieces:
\* the empty string is << >>, concatenation is \o, and the separators the code
\* inserts are pieces of their own.

MaxMsgs == 2

\* strings.Join
RECURSIVE Join(_, _)
Join(ss, sep) ==
    IF Len(ss) = 0 THEN << >>
    ELSE IF Len(ss) = 1 THEN ss[1]
    ELSE ss[1] \o sep \o Join(Tail(ss), sep)

\* A ContentPart of a multi-part content: a text part or an image part.
TextPart(t) == [Type |-> "text", Text |-> t]
ImagePart == [Type |-> "image_url", Text |-> << >>]

\* MessageContent as UnmarshalJSON leaves it: a JSON string fills Text, a JSON
\* array fills Parts and sets IsMultiPart.
PlainContent(t) == [IsMultiPart |-> FALSE, Text |-> t, Parts |-> << >>]
MultiPartContent(ps) == [IsMultiPart |-> TRUE, Text |-> << >>, Parts |-> ps]

\* The text parts of a part list, in order.
RECURSIVE TextsOf(_)
TextsOf(ps) ==
    IF ps = << >> THEN << >>
    ELSE (IF Head(ps).Type = "text" THEN << Head(ps).Text >> ELSE << >>)
         \o TextsOf(Tail(ps))

\* GetTextContent with the text parts run together without the separator.
GetTextContentUnseparated(mc) ==
    IF ~mc.IsMultiPart THEN mc.Text ELSE Join(TextsOf(mc.Parts), << >>)

\* MessageContent.GetTextContent: Text for a plain content, the text parts
\* joined with a newline for a multi-part one.
GetTextContent(mc) ==
    IF ~mc.IsMultiPart THEN mc.Text ELSE Join(TextsOf(mc.Parts), << "\n" >>)

Message(role, content) == [Role |-> role, Content |-> content]

\* The roles a client can put on a message; the code names the first three.
Roles == {"system", "user", "assistant", "tool"}

RoleTag(role) ==
    CASE role = "system" -> << "[System]: " >>
      [] role = "user" -> << "[User]: " >>
      [] role = "assistant" -> << "[Assistant]: " >>

\* The segments ConvertMessagesToSingleMessage collects: one for each message
\* whose role is system, user or assistant, nothing for any other role.
RECURSIVE Segments(_)
Segments(msgs) ==
    IF msgs = << >> THEN << >>
    ELSE (IF Head(msgs).Role \in {"system", "user", "assistant"}
          THEN << RoleTag(Head(msgs).Role) \o GetTextContent(Head(msgs).Content) >>
          ELSE << >>)
         \o Segments(Tail(msgs))

\* ConvertMessagesToSingleMessage: the segments joined by a blank line.
ConvertMessagesToSingleMessage(msgs) == Join(Segments(msgs), << "\n\n" >>)

\* The contents a client message is drawn from: a plain text, two text parts,
\* text parts around an image part, an image part alone.
Contents ==
    { PlainContent(<< "a" >>),
      MultiPartContent(<< TextPart(<< "b" >>), TextPart(<< "c" >>) >>),
      MultiPartContent(<< TextPart(<< "b" >>), ImagePart, TextPart(<< "c" >>) >>),
      MultiPartContent(<< ImagePart >>) }

Messages == { Message(r, c) : r \in Roles, c \in Contents }

Histories == UNION { [1..n -> Messages] : n \in 1..MaxMsgs }

\* The history of the request the routing run follows.
RequestHistory ==
    << Message("system", PlainContent(<< "a" >>)),
       Message("user", MultiPartContent(<< TextPart(<< "b" >>), ImagePart >>)) >>

ClientInputs ==
    { [kind |-> k, Model |-> "", Stream |-> FALSE] : k \in {"method", "unreadable", "badjson", "null"} }
    \cup { [kind |-> "object", Model |-> m, Stream |-> st] : m \in RequestModels, st \in BOOLEAN }

\* useChatSession with the session category replaced by "has a bound persona".
UseChatSessionByBoundPersona(m) == ~m.nil /\ m.PersonaID # 0

\* useChatSession with the persona cache as a second way in: a model the
\* cache maps to a persona uses the session API whatever its registry entry.
UseChatSessionOrPersona(m) ==
    (~m.nil /\ m.Category = "AO") \/ ~GetPersonaForModel(chatReq.Model).nil

\* useChatSession: only a registry entry of category AO.
UseChatSession(m) == ~m.nil /\ m.Category = "AO"

\* ResolvePersonaID with the dynamic lookup taking precedence over the bound id.
ResolvePersonaIDLookupFirst(m, id) ==
    LET persona == GetPersonaForModel(id) IN
    IF ~persona.nil THEN persona.ID
    ELSE IF ~m.nil THEN m.PersonaID ELSE 0

\* The persona id of a session-category request: the model's bound PersonaID,
\* else the id of the persona the cache maps the model identifier to, else 0.
ResolvePersonaID(m, id) ==
    IF ~m.nil /\ m.PersonaID # 0 THEN m.PersonaID
    ELSE LET persona == GetPersonaForModel(id) IN
         IF ~persona.nil THEN persona.ID ELSE 0

\* shouldSendAuth with the session category excluded as well.
ShouldSendAuthNotAO(m) == m.nil \/ m.Category \notin {"kO", "CO", "AO"}

\* shouldSendAuth of setUpstreamHeaders.
ShouldSendAuth(m) == m.nil \/ ~(m.Category = "kO" \/ m.Category = "CO")

\* setUpstreamHeaders: whether apikey / Authorization are set on the request.
setUpstreamHeaders(m) == ShouldSendAuth(m) /\ GetUpstreamAPIKey # ""

\* getUpstreamURLForModel: the provider query parameter set on the base URL
\* ("" when the base URL is used as it is); urlValid: UPSTREAM_URL parses.
getUpstreamURLForModel(id, urlValid) ==
    LET m == GetModelByID(id) IN
    IF m.nil \/ m.APIProvider = "" THEN ""
    ELSE IF ~urlValid THEN "" ELSE m.APIProvider

\* Method check, body read, JSON decoding and GetModelByID.
ChatCompletionsBegin ==
    /\ boot = "serving"
    /\ rpc \in {"idle", "done"}
    /\ \E in \in ClientInputs :
        /\ chatReq' = [body |-> in.kind, Model |-> in.Model, Stream |-> in.Stream]
        /\ IF in.kind \in {"object", "null"}
           THEN /\ model' = GetModelByID(in.Model)
                /\ reply' = NoResponse
                /\ rpc' = "route"
           ELSE /\ model' = NilModel
                /\ reply' = IF in.kind = "method"
                             THEN ErrorBody(405, "invalid_request_error")
                             ELSE ErrorBody(400, "invalid_request_error")
                /\ rpc' = "done"
    /\ personaID' = 0
    /\ sessionID' = ""
    /\ messages' = (IF chatReq'.body = "object" THEN RequestHistory ELSE <<>>)
    /\ message' = <<>>
    /\ route' = "none"
    /\ calls' = <<>>
    /\ UNCHANGED <<cacheVars, transVars, proxyVars>>
    /\ UNCHANGED authVars

\* The routing decision: the session dialect for an AO model with a persona id,
\* the direct dialect for everything else.
ChatCompletionsRoute ==
    /\ rpc = "route"
    /\ LET pid == IF UseChatSession(model) THEN ResolvePersonaID(model, chatReq.Model) ELSE 0 IN
        /\ personaID' = pid
        /\ IF UseChatSession(model) /\ pid # 0
           THEN route' = "session" /\ rpc' = "create"
           ELSE route' = "direct" /\ rpc' = "direct"
    /\ UNCHANGED <<chatReq, messages, message, model, sessionID, calls, reply, cacheVars, transVars, proxyVars>>
    /\ UNCHANGED authVars

\* What CreateSession can hand back on success: the chat_session_id of the
\* body, empty when the decoded body has no such field.
SessionIDs == {"", "s1"}

\* The POST CreateSession makes, with what came back.
CreateSessionCall(pid, ok, sid) ==
    [kind |-> "create-session", persona |-> pid, ok |-> ok, session |-> sid]

\* The POST SendMessage makes (status 0: transport error).
SendMessageCall(sid, st) ==
    [kind |-> "send-message", session |-> sid, status |-> st]

\* handleChatSessionRequestCreate with a failed create-session falling back to
\* the direct dialect.
handleChatSessionRequestCreateFallback ==
    /\ rpc = "create"
    /\ \E ok \in BOOLEAN, sid \in SessionIDs :
        /\ sessionID' = (IF ok THEN sid ELSE "")
        /\ calls' = Append(calls, CreateSessionCall(personaID, ok, sessionID'))
        /\ IF ok THEN rpc' = "send" ELSE rpc' = "direct"
    /\ UNCHANGED <<chatReq, messages, message, model, personaID, route, reply, transVars, proxyVars>>
    /\ GetUpstreamAPIKeyDo
    /\ UNCHANGED <<boot, envKey, keyCalls, personas, modelToPersona, models, syncVars>>
    /\ UNCHANGED authVars

\* handleChatSessionRequest up to CreateSession: a transport error, a non-200
\* status or an undecodable body is answered 502; otherwise the session id is
\* the chat_session_id of the decoded body.
handleChatSessionRequestCreate ==
    /\ rpc = "create"
    /\ \E ok \in BOOLEAN, sid \in SessionIDs :
        /\ sessionID' = (IF ok THEN sid ELSE "")
        /\ calls' = Append(calls, CreateSessionCall(personaID, ok, sessionID'))
        /\ IF ok
           THEN rpc' = "send" /\ UNCHANGED reply
           ELSE rpc' = "done" /\ reply' = ErrorBody(502, "server_error")
    /\ UNCHANGED <<chatReq, messages, message, model, personaID, route, transVars, proxyVars>>
    /\ GetUpstreamAPIKeyDo
    /\ UNCHANGED <<boot, envKey, keyCalls, personas, modelToPersona, models, syncVars>>
    /\ UNCHANGED authVars

\* handleChatSessionRequest from SendMessage on: a transport error is answered
\* 502, a non-200 status is answered with that status, and a 200 body is handed
\* to HandleChatSessionStream.
handleChatSessionRequestSendRetried ==
    /\ rpc = "send"
    /\ message' = ConvertMessagesToSingleMessage(messages)
    /\ \E outcome \in Outcomes :
        /\ calls' = Append(calls, SendMessageCall(sessionID, StatusOf(outcome)))
        /\ IF outcome = "err" /\ Len(calls) < 2
           THEN rpc' = "send" /\ UNCHANGED reply
           ELSE /\ rpc' = "done"
                /\ reply' = CASE outcome = "err" -> ErrorBody(502, "server_error")
                               [] outcome = "200" ->
                                    [kind |-> "body", dialect |-> "session", stream |-> chatReq.Stream]
                               [] OTHER -> ErrorBody(StatusOf(outcome), "upstream_error")
    /\ UNCHANGED <<chatReq, messages, model, personaID, sessionID, route, transVars, proxyVars>>
    /\ GetUpstreamAPIKeyDo
    /\ UNCHANGED <<boot, envKey, keyCalls, personas, modelToPersona, models, syncVars>>
    /\ UNCHANGED authVars

handleChatSessionRequestSend ==
    /\ rpc = "send"
    /\ message' = ConvertMessagesToSingleMessage(messages)
    /\ \E outcome \in Outcomes :
        /\ calls' = Append(calls, SendMessageCall(sessionID, StatusOf(outcome)))
        /\ reply' = CASE outcome = "err" -> ErrorBody(502, "server_error")
                       [] outcome = "200" ->
                            [kind |-> "body", dialect |-> "session", stream |-> chatReq.Stream]
                       [] OTHER -> ErrorBody(StatusOf(outcome), "upstream_error")
    /\ rpc' = "done"
    /\ UNCHANGED <<chatReq, messages, model, personaID, sessionID, route, transVars, proxyVars>>
    /\ GetUpstreamAPIKeyDo
    /\ UNCHANGED <<boot, envKey, keyCalls, personas, modelToPersona, models, syncVars>>
    /\ UNCHANGED authVars

\* The body of an upstream error response: a JSON object in the envelope
\* {error: {message, type, code}}, a JSON object of another shape, text that is
\* not JSON, or a body whose read fails.
ErrorBodyKinds == {"envelope", "json", "text", "unreadable"}

\* json.Unmarshal(body, &upstreamErr) succeeds.
IsJSON(bodyKind) == bodyKind \in {"envelope", "json"}

\* handleUpstreamError: a JSON error body is forwarded as it is, anything else
\* is wrapped by writeError; the upstream status is kept.
handleUpstreamErrorAsBadGateway(code, bodyKind) ==
    IF IsJSON(bodyKind)
    THEN [kind |-> "forwarded", status |-> code, body |-> bodyKind]
    ELSE ErrorBody(502, "upstream_error")

handleUpstreamError(code, bodyKind) ==
    IF IsJSON(bodyKind)
    THEN [kind |-> "forwarded", status |-> code, body |-> bodyKind]
    ELSE ErrorBody(code, "upstream_error")

\* The "stream" member of a client body that decodes to the given
\* ChatRequest.Stream, as JSON text: absent and false both decode to false.
ClientStreamKeys(st) == IF st THEN {"true"} ELSE {"false", "absent"}

\* A member of the client body that ChatRequest does not name, a JSON
\* integer: one small, one above 2^53.
Seeds == {"42", "9007199254740993"}

\* The rest of a client body, beside the model: its "stream" and "seed"
\* members as JSON text.
ClientBody(sk, seed) == [stream |-> sk, seed |-> seed]

\* A JSON number decoded into interface{} (a float64) and encoded again: an
\* integer above 2^53 comes back as the nearest float64.
Float64(n) == IF n = "9007199254740993" THEN "9007199254740992" ELSE n

\* json.Unmarshal(body, &upstreamBody) into a map, upstreamBody["stream"] =
\* true, json.Marshal: the members of the body the upstream is sent.
UpstreamBody(b) ==
    [stream |-> "true", seed |-> Float64(b.seed)]

\* The direct dialect: the body is re-encoded with stream = true, the request
\* is built, its headers are set, and it is dispatched.
ChatCompletionsDirect ==
    /\ rpc = "direct"
    /\ rpc' = "done"
    /\ \E urlValid \in BOOLEAN :
        IF chatReq.body = "null" \/ ~urlValid
        THEN \* a null body leaves upstreamBody a nil map and the assignment panics
             \* (Recovery answers 500); an unparsable UPSTREAM_URL makes
             \* http.NewRequestWithContext fail (500)
             /\ reply' = ErrorBody(500, "server_error")
             /\ UNCHANGED <<calls, cachedAPIKeyOnce, cachedAPIKey>>
        ELSE \E outcome \in Outcomes,
                sk \in ClientStreamKeys(chatReq.Stream), seed \in Seeds :
             /\ calls' = Append(calls,
                     [kind |-> "dispatch",
                      client |-> ClientBody(sk, seed),
                      body |-> UpstreamBody(ClientBody(sk, seed)),
                      provider |-> getUpstreamURLForModel(chatReq.Model, urlValid),
                      auth |-> setUpstreamHeaders(model),
                      status |-> StatusOf(outcome)])
             /\ GetUpstreamAPIKeyDo
             /\ CASE outcome = "err" -> reply' = ErrorBody(502, "server_error")
                  [] outcome = "200" ->
                       reply' = [kind |-> "body", dialect |-> "direct",
                                 stream |-> chatReq.Stream]
                  [] OTHER ->
                       \E bodyKind \in ErrorBodyKinds :
                           reply' = handleUpstreamError(StatusOf(outcome), bodyKind)
    /\ UNCHANGED <<chatReq, messages, message, model, personaID, sessionID, route, transVars, proxyVars>>
    /\ UNCHANGED <<boot, envKey, keyCalls, personas, modelToPersona, models, syncVars>>
    /\ UNCHANGED authVars

\* ---------------------------------------------------------------------------
\* The credential on its own: a run of GetUpstreamAPIKey calls, each finding
\* the environment variable unset or set to some value.
MaxKeyCalls == 4

EnvKeys == {"", "sk-env", "sk-other"}

\* One call of GetUpstreamAPIKey with os.Getenv answering e.
GetUpstreamAPIKeyCall ==
    /\ Len(keyCalls) < MaxKeyCalls
    /\ \E e \in EnvKeys :
        /\ envKey' = e
        /\ keyCalls' = Append(keyCalls,
                [env |-> e,
                 key |-> KeyReturned(e, cachedAPIKeyOnce, cachedAPIKey),
                 decrypted |-> (e = "" /\ ~cachedAPIKeyOnce)])
        /\ cachedAPIKeyOnce' = TRUE
        /\ cachedAPIKey' = CachedAfter(e, cachedAPIKeyOnce, cachedAPIKey)
    /\ UNCHANGED <<boot, personas, modelToPersona, models, syncVars>>
    /\ UNCHANGED <<reqVars, transVars, proxyVars>>

CredentialInit ==
    /\ CacheIdle
    /\ envKey \in EnvKeys
    /\ ReqIdle
    /\ TransIdle
    /\ ProxyIdle

CredentialNext == GetUpstreamAPIKeyCall

SpecCredential == CredentialInit /\ [][CredentialNext]_vars

\* ---------------------------------------------------------------------------
\* The flattening on its own: a request already routed to the session dialect
\* with its session created, over every history within the bound.
FlattenInit ==
    /\ CacheIdle
    /\ envKey = ""
    /\ TransIdle
    /\ ProxyIdle
    /\ rpc = "send"
    /\ chatReq = [body |-> "object", Model |-> "", Stream |-> FALSE]
    /\ model = NilModel
    /\ personaID = 1
    /\ sessionID = "s1"
    /\ messages \in Histories
    /\ message = << >>
    /\ route = "session"
    /\ calls = << CreateSessionCall(1, TRUE, "s1") >>
    /\ reply = NoResponse
    /\ apiKey = << >>
    /\ inbound = NoRequest
    /\ served = "none"

FlattenNext == handleChatSessionRequestSend

SpecFlatten == FlattenInit /\ [][FlattenNext]_vars


RouteInit ==
    /\ CacheIdle
    /\ envKey \in {"", "sk-env"}
    /\ ReqIdle
    /\ TransIdle
    /\ ProxyIdle

\* The run follows one request until it is answered; the refresh ticks that
\* come after the answer are not followed, nothing reads the caches then.
RequestOpen == rpc # "done"

RouteNext ==
    \/ InitPersonaCache
    \/ InitModelsCache
    \/ RequestOpen /\ personaRefreshLoop
    \/ RequestOpen /\ modelsRefreshLoop
    \/ ChatCompletionsBegin
    \/ ChatCompletionsRoute
    \/ handleChatSessionRequestCreate
    \/ handleChatSessionRequestSend
    \/ ChatCompletionsDirect

SpecRoute == RouteInit /\ [][RouteNext]_vars

\* ---------------------------------------------------- Handler.Responses
\* Method check, body read and JSON decoding. A body of null decodes into the
\* zero ResponsesRequest; the history of a chat request is not part of it.
ResponsesBegin ==
    /\ boot = "serving"
    /\ rpc \in {"idle", "done"}
    /\ \E in \in ClientInputs :
        /\ chatReq' = [body |-> in.kind, Model |-> in.Model, Stream |-> in.Stream]
        /\ IF in.kind \in {"object", "null"}
           THEN /\ reply' = NoResponse
                /\ rpc' = "responses"
           ELSE /\ reply' = IF in.kind = "method"
                             THEN ErrorBody(405, "invalid_request_error")
                             ELSE ErrorBody(400, "invalid_request_error")
                /\ rpc' = "done"
    /\ model' = NilModel
    /\ personaID' = 0
    /\ sessionID' = ""
    /\ messages' = << >>
    /\ message' = << >>
    /\ route' = "none"
    /\ calls' = <<>>
    /\ UNCHANGED <<cacheVars, transVars, proxyVars>>
    /\ UNCHANGED authVars

\* The chat body Responses builds: the input as one user message, stream true.
ResponsesChatBody == [stream |-> "true", messages |-> 1]

\* ResponsesDispatch choosing the dialect as ChatCompletions does.
ResponsesDispatchRouted ==
    /\ rpc = "responses"
    /\ model' = GetModelByID(chatReq.Model)
    /\ IF UseChatSession(model') /\ ResolvePersonaID(model', chatReq.Model) # 0
       THEN /\ personaID' = ResolvePersonaID(model', chatReq.Model)
            /\ route' = "session"
            /\ rpc' = "done"
            /\ calls' = Append(calls, CreateSessionCall(personaID', FALSE, ""))
            /\ reply' = ErrorBody(502, "server_error")
            /\ GetUpstreamAPIKeyDo
       ELSE /\ route' = "direct"
            /\ rpc' = "done"
            /\ personaID' = 0
            /\ \E urlValid \in BOOLEAN :
                IF ~urlValid
                THEN /\ reply' = ErrorBody(500, "server_error")
                     /\ UNCHANGED <<calls, cachedAPIKeyOnce, cachedAPIKey>>
                ELSE \E outcome \in Outcomes :
                     /\ calls' = Append(calls,
                             [kind |-> "dispatch",
                              body |-> ResponsesChatBody,
                              provider |-> getUpstreamURLForModel(chatReq.Model, urlValid),
                              auth |-> setUpstreamHeaders(model'),
                              status |-> StatusOf(outcome)])
                     /\ GetUpstreamAPIKeyDo
                     /\ CASE outcome = "err" -> reply' = ErrorBody(502, "server_error")
                          [] outcome = "200" ->
                               reply' = [kind |-> "body", dialect |-> "responses",
                                         stream |-> FALSE]
                          [] OTHER ->
                               \E bodyKind \in ErrorBodyKinds :
                                   reply' = handleUpstreamError(StatusOf(outcome), bodyKind)
    /\ UNCHANGED <<chatReq, messages, message, sessionID, transVars, proxyVars>>
    /\ UNCHANGED <<boot, envKey, keyCalls, personas, modelToPersona, models, syncVars>>
    /\ UNCHANGED authVars

\* The rest of Responses up to the upstream's answer: the upstream URL, the
\* request (500 when it cannot be built), the model for the headers, the
\* dispatch (502 on a transport error), handleUpstreamError for a status other
\* than 200, and a 200 body handed to the scan loop. Neither the category of
\* the model nor its persona is looked at.
ResponsesDispatch ==
    /\ rpc = "responses"
    /\ rpc' = "done"
    /\ route' = "direct"
    /\ model' = GetModelByID(chatReq.Model)
    /\ \E urlValid \in BOOLEAN :
        IF ~urlValid
        THEN /\ reply' = ErrorBody(500, "server_error")
             /\ UNCHANGED <<calls, cachedAPIKeyOnce, cachedAPIKey>>
        ELSE \E outcome \in Outcomes :
             /\ calls' = Append(calls,
                     [kind |-> "dispatch",
                      body |-> ResponsesChatBody,
                      provider |-> getUpstreamURLForModel(chatReq.Model, urlValid),
                      auth |-> setUpstreamHeaders(model'),
                      status |-> StatusOf(outcome)])
             /\ GetUpstreamAPIKeyDo
             /\ CASE outcome = "err" -> reply' = ErrorBody(502, "server_error")
                  [] outcome = "200" ->
                       reply' = [kind |-> "body", dialect |-> "responses", stream |-> FALSE]
                  [] OTHER ->
                       \E bodyKind \in ErrorBodyKinds :
                           reply' = handleUpstreamError(StatusOf(outcome), bodyKind)
    /\ UNCHANGED <<chatReq, messages, message, personaID, sessionID, transVars, proxyVars>>
    /\ UNCHANGED <<boot, envKey, keyCalls, personas, modelToPersona, models, syncVars>>
    /\ UNCHANGED authVars

ResponsesNext ==
    \/ InitPersonaCache
    \/ InitModelsCache
    \/ RequestOpen /\ personaRefreshLoop
    \/ RequestOpen /\ modelsRefreshLoop
    \/ ResponsesBegin
    \/ ResponsesDispatch

SpecResponses == RouteInit /\ [][ResponsesNext]_vars

\* ------------------------------------------- the middleware chain
\* Header values and keys are strings in pieces; the prefix "Bearer " is a
\* piece of its own.
HasPrefix(str, pfx) == Len(str) >= 1 /\ str[1] = pfx
TrimPrefix(str, pfx) == IF HasPrefix(str, pfx) THEN Tail(str) ELSE str

APIKeys == { << >>, << "sk-1" >>, << "sk-2" >>, << "Bearer ", "sk-1" >> }

\* The inbound requests: method, URL path and Authorization header (<< >>
\* when the header is missing).
Methods == {"GET", "POST", "OPTIONS"}
Paths == {"/health", "/", "/health/", "/v1/chat/completions", "/v1/responses", "/v1/models"}
AuthHeaders ==
    { << >>, << "sk-1" >>, << "Bearer ", "sk-1" >>, << "sk-2" >>, << "Bearer " >>,
      << "Bearer ", "Bearer ", "sk-1" >>, << "bearer ", "sk-1" >>, << "sk-1", "x" >> }

\* Auth letting every request with an Authorization header through.
AuthHeaderPresent(r) ==
    IF r.Path = "/health" \/ r.Path = "/" THEN "next"
    ELSE IF apiKey = << >> THEN "next"
    ELSE IF r.Authorization = << >> THEN "401"
    ELSE "next"

\* middleware.Auth: /health and / pass, everything passes when no key is set,
\* otherwise the header, without its "Bearer " prefix when it has one, must be
\* the key.
Auth(r) ==
    IF r.Path = "/health" \/ r.Path = "/" THEN "next"
    ELSE IF apiKey = << >> THEN "next"
    ELSE IF r.Authorization = << >> THEN "401"
    ELSE IF TrimPrefix(r.Authorization, "Bearer ") # apiKey THEN "401"
    ELSE "next"

\* middleware.CORS in front of it: a preflight is answered at once.
CORS(r) == IF r.Method = "OPTIONS" THEN "cors" ELSE Auth(r)

\* One request through Recovery, CORS, Auth and Logger to the mux.
ServeHTTP ==
    /\ served = "none"
    /\ \E m \in Methods, path \in Paths, h \in AuthHeaders :
        LET r == [Method |-> m, Path |-> path, Authorization |-> h] IN
        /\ inbound' = r
        /\ served' = CORS(r)
        /\ reply' = IF CORS(r) = "401"
                    THEN ErrorBody(401, "invalid_request_error") ELSE reply
    /\ UNCHANGED <<apiKey, rpc, chatReq, model, personaID, sessionID, messages,
                   message, route, calls>>
    /\ UNCHANGED <<cacheVars, transVars, proxyVars>>

\* The server as main leaves it, with API_KEY unset or set.
AuthInit ==
    /\ CacheIdle /\ envKey = ""
    /\ TransIdle
    /\ ProxyIdle
    /\ rpc = "idle"
    /\ chatReq = [body |-> "none", Model |-> "", Stream |-> FALSE]
    /\ model = NilModel
    /\ personaID = 0
    /\ sessionID = ""
    /\ messages = << >>
    /\ message = << >>
    /\ route = "none"
    /\ calls = << >>
    /\ reply = NoResponse
    /\ apiKey \in APIKeys
    /\ inbound = NoRequest
    /\ served = "none"

AuthNext == ServeHTTP

SpecAuth == AuthInit /\ [][AuthNext]_vars

\* ------------------------------------------------------ the proxy client
\* What one network call through an http.Client can come back with: a
\* transport error, or a response carrying some HTTP status.
AttemptOutcomes == {"err", "200", "500"}

\* Client.currentIdx is a uint32, kept as its two 16-bit halves <<high, low>>.
Half == 65536

\* atomic.AddUint32(&c.currentIdx, 1): the new value, wrapping at 2^32.
AddUint32(c) ==
    IF c[2] + 1 < Half THEN <<c[1], c[2] + 1>> ELSE <<(c[1] + 1) % Half, 0>>

TransportError(via) == [kind |-> "err", via |-> via]
UpstreamResponse(st, via) == [kind |-> "resp", status |-> st, via |-> via]
DoResult(out, via) ==
    IF out = "err" THEN TransportError(via) ELSE UpstreamResponse(out, via)

\* One entry of a call's attempt history: the kind of client used ("proxy"
\* for a pool entry's client, "direct" for the direct client) and what came
\* back.
Attempt(client, out) == [client |-> client, out |-> out]

\* idx := (int(startIdx) + i) % len(c.proxies), as a position of the pool.
ScanFrom(startIdx, k) ==
    LET n == Len(proxies)
    IN (((startIdx[1] % n) * (Half % n) + (startIdx[2] % n) + k) % n) + 1

getNextProxyUnscanned(startIdx) ==
    ScanFrom(startIdx, 0)

\* getNextProxy's scan: the first healthy entry at or after the cursor, in
\* pool order with wrap-around; the first pool entry when none is healthy.
getNextProxy(startIdx) ==
    LET hits == {k \in 0..(Len(proxies) - 1) : Healthy[ScanFrom(startIdx, k)]}
        first == CHOOSE k \in hits : \A j \in hits : k <= j
    IN IF hits = {} THEN 1 ELSE ScanFrom(startIdx, first)

\* Calls are numbered in the order they enter Do.
Enters(d) ==
    /\ dpc[d] = "idle"
    /\ d <= traffic.callers
    /\ \A e \in Calls : e < d => dpc[e] # "idle"

\* The call is at the head of Do's loop.
AtLoop(d) == Enters(d) \/ dpc[d] = "loop"

\* Client.Do when the pool is disabled or empty: one call on the direct client.
DoDirect(d) ==
    /\ Enters(d)
    /\ ~proxyEnabled
    /\ \E out \in AttemptOutcomes :
        /\ dlog' = [dlog EXCEPT ![d] = Append(@, Attempt("direct", out))]
        /\ dres' = [dres EXCEPT ![d] = DoResult(out, "direct")]
    /\ dpc' = [dpc EXCEPT ![d] = "done"]
    /\ UNCHANGED <<poolConfig, lockVars, Healthy, FailCount, currentIdx,
                   di, dproxy, ppc, probes, returned>>
    /\ UNCHANGED <<picks, probeFails, streak, transVars, cacheVars, reqVars>>

\* One iteration of Do's loop up to the error test: getNextProxy advances the
\* cursor and picks the entry, the call goes through that entry's client, and
\* a response of any status is returned at once.
DoAttemptOnServerErrorRetried(d, out) ==
    LET startIdx == AddUint32(currentIdx)
        p == getNextProxy(startIdx)
    IN /\ currentIdx' = startIdx
       /\ dproxy' = [dproxy EXCEPT ![d] = p]
       /\ dlog' = [dlog EXCEPT ![d] = Append(@, Attempt("proxy", out))]
       /\ streak' = (IF out = "200" THEN [streak EXCEPT ![p] = 0] ELSE streak)
       /\ IF out \in {"err", "500"}
          THEN /\ dpc' = [dpc EXCEPT ![d] = "add"]
               /\ dres' = dres
               /\ picks' = <<>>
          ELSE /\ dpc' = [dpc EXCEPT ![d] = "done"]
               /\ dres' = [dres EXCEPT ![d] = UpstreamResponse(out, proxies[p])]
               /\ picks' = Append(picks, p)

DoAttemptOn(d, out) ==
    LET startIdx == AddUint32(currentIdx)
        p == getNextProxy(startIdx)
    IN /\ currentIdx' = startIdx
       /\ dproxy' = [dproxy EXCEPT ![d] = p]
       /\ dlog' = [dlog EXCEPT ![d] = Append(@, Attempt("proxy", out))]
       /\ streak' = (IF out = "200" THEN [streak EXCEPT ![p] = 0] ELSE streak)
       /\ IF out = "err"
          THEN /\ dpc' = [dpc EXCEPT ![d] = "add"]
               /\ dres' = dres
               /\ picks' = <<>>
          ELSE /\ dpc' = [dpc EXCEPT ![d] = "done"]
               /\ dres' = [dres EXCEPT ![d] = UpstreamResponse(out, proxies[p])]
               /\ picks' = Append(picks, p)

DoAttemptOneMore(d) ==
    /\ AtLoop(d)
    /\ proxyEnabled
    /\ di[d] <= retryCount
    /\ \E out \in AttemptOutcomes : DoAttemptOn(d, out)
    /\ UNCHANGED <<poolConfig, lockVars, Healthy, FailCount, di, ppc, probes, returned>>
    /\ UNCHANGED <<probeFails, transVars, cacheVars, reqVars>>

DoAttempt(d) ==
    /\ AtLoop(d)
    /\ proxyEnabled
    /\ di[d] < retryCount
    /\ \E out \in AttemptOutcomes : DoAttemptOn(d, out)
    /\ UNCHANGED <<poolConfig, lockVars, Healthy, FailCount, di, ppc, probes, returned>>
    /\ UNCHANGED <<probeFails, transVars, cacheVars, reqVars>>

\* markProxyFailed, first statement: atomic.AddInt32(&p.FailCount, 1).
markProxyFailedAdd(d) ==
    /\ dpc[d] = "add"
    /\ FailCount' = [FailCount EXCEPT ![dproxy[d]] = @ + 1]
    /\ dpc' = [dpc EXCEPT ![d] = "load"]
    /\ streak' = [streak EXCEPT ![dproxy[d]] = @ + 1]
    /\ UNCHANGED <<poolConfig, lockVars, Healthy, currentIdx,
                   di, dproxy, dlog, dres, ppc, probes, returned>>
    /\ UNCHANGED <<picks, probeFails, transVars, cacheVars, reqVars>>

\* markProxyFailed, the test: atomic.LoadInt32 against cfg.ProxyRetryCount.
\* Below the threshold the function returns and the loop goes round.
markProxyFailedLoad(d) ==
    /\ dpc[d] = "load"
    /\ IF FailCount[dproxy[d]] >= retryCount
       THEN /\ dpc' = [dpc EXCEPT ![d] = "mark"]
            /\ di' = di
       ELSE /\ dpc' = [dpc EXCEPT ![d] = "loop"]
            /\ di' = [di EXCEPT ![d] = @ + 1]
    /\ UNCHANGED <<poolConfig, lockVars, Healthy, FailCount, currentIdx,
                   dproxy, dlog, dres, ppc, probes, returned>>
    /\ UNCHANGED <<picks, probeFails, streak, transVars, cacheVars, reqVars>>

\* markProxyFailed, the locked write p.Healthy = false; the loop goes round.
markProxyFailedSet(d) ==
    /\ dpc[d] = "mark"
    /\ Healthy' = [Healthy EXCEPT ![dproxy[d]] = FALSE]
    /\ dpc' = [dpc EXCEPT ![d] = "loop"]
    /\ di' = [di EXCEPT ![d] = @ + 1]
    /\ UNCHANGED <<poolConfig, lockVars, FailCount, currentIdx,
                   dproxy, dlog, dres, ppc, probes, returned>>
    /\ picks' = <<>>
    /\ UNCHANGED <<probeFails, streak, transVars, cacheVars, reqVars>>

\* Do after the loop: one call on the direct client, whose result is returned.
DoFallback(d) ==
    /\ AtLoop(d)
    /\ proxyEnabled
    /\ di[d] >= retryCount
    /\ \E out \in AttemptOutcomes :
        /\ dlog' = [dlog EXCEPT ![d] = Append(@, Attempt("direct", out))]
        /\ dres' = [dres EXCEPT ![d] = DoResult(out, "direct(fallback)")]
    /\ dpc' = [dpc EXCEPT ![d] = "done"]
    /\ UNCHANGED <<poolConfig, lockVars, Healthy, FailCount, currentIdx,
                   di, dproxy, ppc, probes, returned>>
    /\ UNCHANGED <<picks, probeFails, streak, transVars, cacheVars, reqVars>>

\* The caller has its result and the goroutine serves its next request: Do
\* is entered again with fresh locals.
DoAgain(d) ==
    /\ dpc[d] = "done"
    /\ returned < traffic.repeats
    /\ returned' = returned + 1
    /\ dpc' = [dpc EXCEPT ![d] = "idle"]
    /\ di' = [di EXCEPT ![d] = 0]
    /\ dproxy' = [dproxy EXCEPT ![d] = 0]
    /\ dlog' = [dlog EXCEPT ![d] = <<>>]
    /\ dres' = [dres EXCEPT ![d] = NoResponse]
    /\ UNCHANGED <<poolConfig, lockVars, Healthy, FailCount, currentIdx,
                   ppc, probes>>
    /\ UNCHANGED <<picks, probeFails, streak, transVars, cacheVars, reqVars>>

\* checkProxy up to the error test: the probe goes out; on success the locked
\* block sets Healthy and clears FailCount.
checkProxy(p) ==
    /\ proxyEnabled
    /\ ppc[p] = "idle"
    /\ probes < traffic.probes
    /\ probes' = probes + 1
    /\ \E ok \in BOOLEAN :
        IF ok
        THEN /\ Healthy' = [Healthy EXCEPT ![p] = TRUE]
             /\ FailCount' = [FailCount EXCEPT ![p] = 0]
             /\ ppc' = ppc
             /\ picks' = (IF Healthy[p] THEN picks ELSE <<>>)
             /\ probeFails' = [probeFails EXCEPT ![p] = 0]
             /\ streak' = [streak EXCEPT ![p] = 0]
        ELSE /\ ppc' = [ppc EXCEPT ![p] = "add"]
             /\ picks' = <<>>
             /\ UNCHANGED <<Healthy, FailCount, probeFails, streak>>
    /\ UNCHANGED <<poolConfig, lockVars, currentIdx, dpc, di, dproxy, dlog, dres,
                   returned>>
    /\ UNCHANGED <<transVars, cacheVars, reqVars>>

\* checkProxy on error: atomic.AddInt32(&p.FailCount, 1).
checkProxyAdd(p) ==
    /\ ppc[p] = "add"
    /\ FailCount' = [FailCount EXCEPT ![p] = @ + 1]
    /\ ppc' = [ppc EXCEPT ![p] = "load"]
    /\ streak' = [streak EXCEPT ![p] = @ + 1]
    /\ UNCHANGED <<poolConfig, lockVars, Healthy, currentIdx,
                   dpc, di, dproxy, dlog, dres, probes, returned>>
    /\ UNCHANGED <<picks, probeFails, transVars, cacheVars, reqVars>>

checkProxyLoadNeverMarks(p) ==
    /\ ppc[p] = "load"
    /\ ppc' = [ppc EXCEPT ![p] = "idle"]
    /\ probeFails' = [probeFails EXCEPT ![p] = @ + 1]
    /\ UNCHANGED <<poolConfig, lockVars, Healthy, FailCount, currentIdx,
                   dpc, di, dproxy, dlog, dres, probes, returned>>
    /\ UNCHANGED <<picks, streak, transVars, cacheVars, reqVars>>

\* checkProxy on error: the test atomic.LoadInt32(&p.FailCount) >= 3. Below
\* the threshold the function returns here.
checkProxyLoad(p) ==
    /\ ppc[p] = "load"
    /\ ppc' = [ppc EXCEPT ![p] =
                 IF FailCount[p] >= ProbeFailLimit THEN "mark" ELSE "idle"]
    /\ UNCHANGED <<poolConfig, lockVars, Healthy, FailCount, currentIdx,
                   dpc, di, dproxy, dlog, dres, probes, returned>>
    /\ probeFails' = [probeFails EXCEPT ![p] =
                        IF FailCount[p] >= ProbeFailLimit THEN @ ELSE @ + 1]
    /\ UNCHANGED <<picks, streak, transVars, cacheVars, reqVars>>

\* checkProxy on error: the locked write p.Healthy = false, and the return.
checkProxySet(p) ==
    /\ ppc[p] = "mark"
    /\ Healthy' = [Healthy EXCEPT ![p] = FALSE]
    /\ ppc' = [ppc EXCEPT ![p] = "idle"]
    /\ UNCHANGED <<poolConfig, lockVars, FailCount, currentIdx,
                   dpc, di, dproxy, dlog, dres, probes, returned>>
    /\ picks' = <<>>
    /\ probeFails' = [probeFails EXCEPT ![p] = @ + 1]
    /\ UNCHANGED <<streak, transVars, cacheVars, reqVars>>

\* main has built the client from the configuration: the pool is on or off
\* and the retry count is whatever PROXY_RETRY_COUNT said. The health check
\* has swept the pool up to three times; then every caller makes one call of
\* Do, all at the same time, while the health check goes on probing.
DispatchInit ==
    /\ CacheIdle /\ envKey = ""
    /\ ReqIdle
    /\ TransIdle
    /\ proxyEnabled \in BOOLEAN
    /\ retryCount \in 0..MaxRetry
    /\ traffic = [callers |-> NumCalls, repeats |-> 0, probes |-> MaxProbes]
    /\ \E k \in 0..ProbeFailLimit : PoolAfterSweeps(k)

DispatchNext ==
    \/ \E d \in Calls : DoDirect(d)
    \/ \E d \in Calls : DoAttempt(d)
    \/ \E d \in Calls : markProxyFailedAdd(d)
    \/ \E d \in Calls : markProxyFailedLoad(d)
    \/ \E d \in Calls : markProxyFailedSet(d)
    \/ \E d \in Calls : DoFallback(d)
    \/ \E p \in Pool : checkProxy(p)
    \/ \E p \in Pool : checkProxyAdd(p)
    \/ \E p \in Pool : checkProxyLoad(p)
    \/ \E p \in Pool : checkProxySet(p)

SpecDispatch == DispatchInit /\ [][DispatchNext]_vars

\* ------------------------------------- the session calls and the pool
\* Client.HTTPClient: the client ChatSessionClient is built on.
HTTPClient == "direct"

\* c.httpClient.Do of CreateSession and SendMessage: one call on the client
\* HTTPClient returns, whatever the pool is; the error or the response goes
\* back to the handler as it is.
httpClientDo(d) ==
    /\ Enters(d)
    /\ \E out \in AttemptOutcomes :
        /\ dlog' = [dlog EXCEPT ![d] = Append(@, Attempt(HTTPClient, out))]
        /\ dres' = [dres EXCEPT ![d] = DoResult(out, HTTPClient)]
    /\ dpc' = [dpc EXCEPT ![d] = "done"]
    /\ UNCHANGED <<poolConfig, lockVars, Healthy, FailCount, currentIdx,
                   di, dproxy, ppc, probes, returned>>
    /\ UNCHANGED <<picks, probeFails, streak, transVars, cacheVars, reqVars>>

\* handleChatSessionRequest between its two calls: SendMessage follows a
\* CreateSession that was answered 200.
SendAfterCreate(d) ==
    /\ dpc[d] = "done"
    /\ dres[d].kind = "resp" /\ dres[d].status = "200"
    /\ DoAgain(d)

\* The pool as the health check has left it, and one session-routed request
\* per caller: create-session, then send-message.
HandshakeInit ==
    /\ CacheIdle /\ envKey = ""
    /\ ReqIdle
    /\ TransIdle
    /\ proxyEnabled \in BOOLEAN
    /\ retryCount \in 0..MaxRetry
    /\ traffic = [callers |-> NumCalls, repeats |-> NumCalls, probes |-> 0]
    /\ \E k \in 0..ProbeFailLimit : PoolAfterSweeps(k)

HandshakeNext ==
    \/ \E d \in Calls : httpClientDo(d)
    \/ \E d \in Calls : SendAfterCreate(d)

SpecHandshake == HandshakeInit /\ [][HandshakeNext]_vars

\* ------------------------------------------ the pool under proxyMu
\* Do, getNextProxy, markProxyFailed and checkProxy statement by statement,
\* with the lock each statement runs under.
\* A write to a field of a pool entry, with the way proxyMu is held by the
\* writer: "exclusive" (Lock), "read" (RLock) or "none".
Wr(field, entry, mode) == [field |-> field, entry |-> entry, mode |-> mode]

\* What a call on an http.Client comes back with in these runs; "canceled":
\* the request's context is cancelled, by the client going away.
LockedOutcomes == {"200", "err", "canceled"}

\* The rest of the client is left as it is by these steps.
PoolRest ==
    UNCHANGED <<poolConfig, dpc, di, dproxy, dlog, dres, ppc, picks, probeFails,
                streak, probes, returned, transVars, cacheVars, reqVars>>

\* getNextProxy: c.proxyMu.RLock().
getNextProxyRLock(t) ==
    /\ ld[t].pc = "loop" /\ ld[t].i < retryCount
    /\ ~proxyMu.w
    /\ proxyMu' = [proxyMu EXCEPT !.r = @ + 1]
    /\ ld' = [ld EXCEPT ![t].pc = "scan"]
    /\ UNCHANGED <<lp, Healthy, FailCount, currentIdx>>
    /\ PoolRest

\* getNextProxy: the cursor moves and the scan picks the entry; a healthy
\* entry gets p.LastUsed = time.Now(), written with the read lock held.
getNextProxyScan(t) ==
    /\ ld[t].pc = "scan"
    /\ LET startIdx == AddUint32(currentIdx)
           p == getNextProxy(startIdx)
       IN /\ currentIdx' = startIdx
          /\ ld' = [ld EXCEPT ![t].pc = "runlock", ![t].p = p,
                              ![t].wrote = IF Healthy[p]
                                           THEN {Wr("LastUsed", p, "read")} ELSE {}]
    /\ UNCHANGED <<proxyMu, lp, Healthy, FailCount>>
    /\ PoolRest

\* getNextProxy: the deferred c.proxyMu.RUnlock().
getNextProxyRUnlock(t) ==
    /\ ld[t].pc = "runlock"
    /\ proxyMu' = [proxyMu EXCEPT !.r = @ - 1]
    /\ ld' = [ld EXCEPT ![t].pc = "do", ![t].wrote = {}]
    /\ UNCHANGED <<lp, Healthy, FailCount, currentIdx>>
    /\ PoolRest

\* Do: client.Do(req) on the entry's client. A response is returned; any
\* error, the cancellation of the request's context included, goes on to
\* markProxyFailed. A cancelled context stays cancelled.
DoClientDo(t) ==
    /\ ld[t].pc = "do"
    /\ \E out \in (IF ld[t].ctx = "canceled" THEN {"canceled"} ELSE LockedOutcomes) :
        ld' = [ld EXCEPT ![t].tries = @ + 1,
                         ![t].ctx = IF out = "canceled" THEN "canceled" ELSE @,
                         ![t].pc = IF out = "200" THEN "done" ELSE "add"]
    /\ UNCHANGED <<proxyMu, lp, Healthy, FailCount, currentIdx>>
    /\ PoolRest

\* markProxyFailed: atomic.AddInt32(&p.FailCount, 1), no lock held.
markProxyFailedAddInt32(t) ==
    /\ ld[t].pc = "add"
    /\ FailCount' = [FailCount EXCEPT ![ld[t].p] = @ + 1]
    /\ ld' = [ld EXCEPT ![t].pc = "load",
                        ![t].wrote = {Wr("FailCount", ld[t].p, "none")}]
    /\ UNCHANGED <<proxyMu, lp, Healthy, currentIdx>>
    /\ PoolRest

\* markProxyFailed: the test of atomic.LoadInt32 against cfg.ProxyRetryCount.
markProxyFailedLoadInt32(t) ==
    /\ ld[t].pc = "load"
    /\ ld' = [ld EXCEPT ![t].wrote = {},
                        ![t].pc = IF FailCount[ld[t].p] >= retryCount THEN "lock" ELSE "loop",
                        ![t].i = IF FailCount[ld[t].p] >= retryCount THEN @ ELSE @ + 1]
    /\ UNCHANGED <<proxyMu, lp, Healthy, FailCount, currentIdx>>
    /\ PoolRest

\* markProxyFailed: c.proxyMu.Lock().
markProxyFailedLock(t) ==
    /\ ld[t].pc = "lock"
    /\ ~proxyMu.w /\ proxyMu.r = 0
    /\ proxyMu' = [proxyMu EXCEPT !.w = TRUE]
    /\ ld' = [ld EXCEPT ![t].pc = "write"]
    /\ UNCHANGED <<lp, Healthy, FailCount, currentIdx>>
    /\ PoolRest

\* markProxyFailed: p.Healthy = false.
markProxyFailedWrite(t) ==
    /\ ld[t].pc = "write"
    /\ Healthy' = [Healthy EXCEPT ![ld[t].p] = FALSE]
    /\ ld' = [ld EXCEPT ![t].pc = "unlock",
                        ![t].wrote = {Wr("Healthy", ld[t].p, "exclusive")}]
    /\ UNCHANGED <<proxyMu, lp, FailCount, currentIdx>>
    /\ PoolRest

\* markProxyFailed: c.proxyMu.Unlock(); Do's loop goes round.
markProxyFailedUnlock(t) ==
    /\ ld[t].pc = "unlock"
    /\ proxyMu' = [proxyMu EXCEPT !.w = FALSE]
    /\ ld' = [ld EXCEPT ![t].pc = "loop", ![t].i = @ + 1, ![t].wrote = {}]
    /\ UNCHANGED <<lp, Healthy, FailCount, currentIdx>>
    /\ PoolRest

\* Do after the loop: c.directClient.Do(req), returned whatever it is.
DoDirectClient(t) ==
    /\ ld[t].pc = "loop" /\ ld[t].i >= retryCount
    /\ ld' = [ld EXCEPT ![t].pc = "done", ![t].tries = @ + 1]
    /\ UNCHANGED <<proxyMu, lp, Healthy, FailCount, currentIdx>>
    /\ PoolRest

\* checkProxy: the probe through the entry's client.
checkProxyClientDo(p) ==
    /\ lp[p].pc = "idle"
    /\ \E ok \in BOOLEAN :
        lp' = [lp EXCEPT ![p].pc = IF ok THEN "lock-reset" ELSE "add"]
    /\ UNCHANGED <<proxyMu, ld, Healthy, FailCount, currentIdx>>
    /\ PoolRest

\* checkProxy: atomic.AddInt32(&p.FailCount, 1), no lock held.
checkProxyAddInt32(p) ==
    /\ lp[p].pc = "add"
    /\ FailCount' = [FailCount EXCEPT ![p] = @ + 1]
    /\ lp' = [lp EXCEPT ![p].pc = "load", ![p].wrote = {Wr("FailCount", p, "none")}]
    /\ UNCHANGED <<proxyMu, ld, Healthy, currentIdx>>
    /\ PoolRest

\* checkProxy: the test of atomic.LoadInt32 against 3.
checkProxyLoadInt32(p) ==
    /\ lp[p].pc = "load"
    /\ lp' = [lp EXCEPT ![p].wrote = {},
                        ![p].pc = IF FailCount[p] >= ProbeFailLimit THEN "lock" ELSE "done"]
    /\ UNCHANGED <<proxyMu, ld, Healthy, FailCount, currentIdx>>
    /\ PoolRest

\* checkProxy: c.proxyMu.Lock(), on the failure path and on the success path.
checkProxyLock(p) ==
    /\ lp[p].pc \in {"lock", "lock-reset"}
    /\ ~proxyMu.w /\ proxyMu.r = 0
    /\ proxyMu' = [proxyMu EXCEPT !.w = TRUE]
    /\ lp' = [lp EXCEPT ![p].pc = IF @ = "lock" THEN "write" ELSE "reset"]
    /\ UNCHANGED <<ld, Healthy, FailCount, currentIdx>>
    /\ PoolRest

\* checkProxy: p.Healthy = false.
checkProxyWrite(p) ==
    /\ lp[p].pc = "write"
    /\ Healthy' = [Healthy EXCEPT ![p] = FALSE]
    /\ lp' = [lp EXCEPT ![p].pc = "unlock", ![p].wrote = {Wr("Healthy", p, "exclusive")}]
    /\ UNCHANGED <<proxyMu, ld, FailCount, currentIdx>>
    /\ PoolRest

\* checkProxy: p.Healthy = true; p.FailCount = 0; p.LastChecked = time.Now().
checkProxyReset(p) ==
    /\ lp[p].pc = "reset"
    /\ Healthy' = [Healthy EXCEPT ![p] = TRUE]
    /\ FailCount' = [FailCount EXCEPT ![p] = 0]
    /\ lp' = [lp EXCEPT ![p].pc = "unlock",
                        ![p].wrote = {Wr("Healthy", p, "exclusive"),
                                      Wr("FailCount", p, "exclusive"),
                                      Wr("LastChecked", p, "exclusive")}]
    /\ UNCHANGED <<proxyMu, ld, currentIdx>>
    /\ PoolRest

\* checkProxy: c.proxyMu.Unlock().
checkProxyUnlock(p) ==
    /\ lp[p].pc = "unlock"
    /\ proxyMu' = [proxyMu EXCEPT !.w = FALSE]
    /\ lp' = [lp EXCEPT ![p].pc = "done", ![p].wrote = {}]
    /\ UNCHANGED <<ld, Healthy, FailCount, currentIdx>>
    /\ PoolRest

\* A fresh client with its pool enabled: NumDispatchers requests are
\* dispatched at the same time while the health check probes every entry once.
LockedInit ==
    /\ CacheIdle /\ envKey = ""
    /\ ReqIdle
    /\ TransIdle
    /\ proxyEnabled = TRUE
    /\ retryCount \in 1..MaxRetry
    /\ traffic = [callers |-> 0, repeats |-> 0, probes |-> 0]
    /\ ProxyInit

LockedNext ==
    \/ \E t \in Dispatchers : getNextProxyRLock(t)
    \/ \E t \in Dispatchers : getNextProxyScan(t)
    \/ \E t \in Dispatchers : getNextProxyRUnlock(t)
    \/ \E t \in Dispatchers : DoClientDo(t)
    \/ \E t \in Dispatchers : markProxyFailedAddInt32(t)
    \/ \E t \in Dispatchers : markProxyFailedLoadInt32(t)
    \/ \E t \in Dispatchers : markProxyFailedLock(t)
    \/ \E t \in Dispatchers : markProxyFailedWrite(t)
    \/ \E t \in Dispatchers : markProxyFailedUnlock(t)
    \/ \E t \in Dispatchers : DoDirectClient(t)
    \/ \E p \in Pool : checkProxyClientDo(p)
    \/ \E p \in Pool : checkProxyAddInt32(p)
    \/ \E p \in Pool : checkProxyLoadInt32(p)
    \/ \E p \in Pool : checkProxyLock(p)
    \/ \E p \in Pool : checkProxyWrite(p)
    \/ \E p \in Pool : checkProxyReset(p)
    \/ \E p \in Pool : checkProxyUnlock(p)

SpecLocked == LockedInit /\ [][LockedNext]_vars

\* ------------------------------------------- the pool some time into a run
\* A configured pool of n entries.
PoolURLs(n) == [i \in 1..n |-> "http://p" \o ToString(i)]

\* The client some time into a run, between two sweeps of the health check:
\* a pool of any size up to MaxPool, any of its entries marked unhealthy by
\* markProxyFailed after retryCount failed requests, the cursor a whole
\* number of rounds on, and one caller dispatching request after request.
SelectInit ==
    /\ CacheIdle /\ envKey = ""
    /\ ReqIdle
    /\ TransIdle
    /\ proxyEnabled = TRUE
    /\ \E n \in 1..MaxPool : proxies = PoolURLs(n)
    /\ retryCount \in 1..MaxRetry
    /\ traffic = [callers |-> 1, repeats |-> MaxPool, probes |-> 0]
    /\ Healthy \in [Pool -> BOOLEAN]
    /\ FailCount = [p \in Pool |-> IF Healthy[p] THEN 0 ELSE retryCount]
    /\ currentIdx = <<0, Len(proxies) * retryCount>>
    /\ probeFails = [p \in Pool |-> 0]
    /\ streak = FailCount
    /\ CallsIdle

SelectNext ==
    \/ \E d \in Calls : DoAttempt(d)
    \/ \E d \in Calls : markProxyFailedAdd(d)
    \/ \E d \in Calls : markProxyFailedLoad(d)
    \/ \E d \in Calls : markProxyFailedSet(d)
    \/ \E d \in Calls : DoFallback(d)
    \/ \E d \in Calls : DoAgain(d)

SpecSelect == SelectInit /\ [][SelectNext]_vars


\* =========================================================== properties
\* The request passed the method check, the body read and the JSON decoding.
Validated == chatReq.body \in {"object", "null"}

\* The routing decision of the current request has been taken.
Routed == Validated /\ rpc \in {"create", "send", "direct", "done"}

SessionCalls == {i \in 1..Len(calls) : calls[i].kind \in {"create-session", "send-message"}}
DispatchCalls == {i \in 1..Len(calls) : calls[i].kind = "dispatch"}

IsAO(m) == ~m.nil /\ m.Category = "AO"

\* C1: a request is session-routed only when GetModelByID found its model with
\* category AO; a model of any other category and a model absent from the
\* registry (known to the persona cache or not) is routed direct, and the
\* routing decision itself answers no error.
C1_SessionOnlyForAO ==
    /\ route = "session" => IsAO(model)
    /\ (Routed /\ ~IsAO(model)) => route = "direct"
    /\ rpc = "direct" => reply = NoResponse

C1_Witness ==
    /\ rpc = "done" /\ route = "direct" /\ model.nil
    /\ chatReq.Model = "m1"
    /\ ~modelToPersona["m1"].nil /\ modelToPersona["m1"].ID = 3
    /\ DispatchCalls # {}
    /\ reply.kind = "body"

\* C2: no request issues both a session call (create-session, send-message) and
\* a direct dispatch, and a validated request that has been answered took
\* exactly one route: the session route with its calls and no dispatch, or the
\* direct route with no session call and its single dispatch (none only when
\* the upstream request could not be built).
C2_RoutesExclusive ==
    /\ ~(SessionCalls # {} /\ DispatchCalls # {})
    /\ (Validated /\ rpc = "done") => route \in {"session", "direct"}
    /\ route = "session" => DispatchCalls = {}
    /\ route = "direct" => SessionCalls = {}
    /\ (rpc = "done" /\ route = "session") => SessionCalls # {}
    /\ (rpc = "done" /\ route = "direct") =>
          \/ Cardinality(DispatchCalls) = 1
          \/ (DispatchCalls = {} /\ reply = ErrorBody(500, "server_error"))

C2_Witness ==
    /\ rpc = "done" /\ route = "session"
    /\ Len(calls) = 2
    /\ calls[1].kind = "create-session" /\ calls[2].kind = "send-message"
    /\ reply.kind = "body" /\ reply.dialect = "session"

\* C3: when the routing decision is taken for a model of category AO, the
\* persona id used is the model's bound PersonaID when it is set (non-zero),
\* otherwise the id of the persona the cache maps the model identifier to; when
\* neither gives a persona id the request goes on to the direct route and is
\* answered no error by the decision.
C3_PersonaPrecedence ==
    [][ (rpc = "route" /\ rpc' # "route" /\ IsAO(model)) =>
          IF model.PersonaID # 0
          THEN route' = "session" /\ personaID' = model.PersonaID
          ELSE LET persona == GetPersonaForModel(chatReq.Model) IN
               IF ~persona.nil /\ persona.ID # 0
               THEN route' = "session" /\ personaID' = persona.ID
               ELSE route' = "direct" /\ rpc' = "direct" /\ reply' = NoResponse ]_vars

C3_Witness ==
    /\ rpc = "done" /\ route = "session"
    /\ IsAO(model) /\ model.PersonaID = 0
    /\ personaID = 3
    /\ calls[1].kind = "create-session" /\ calls[1].persona = 3

\* C4: a direct dispatch carries the apikey / Authorization headers exactly when
\* the model GetModelByID returned is not of category kO or CO: never for kO and
\* CO models, always for unknown models, models without a category and AO
\* models that fell back to the direct route.
C4_AuthUnlessKOCO ==
    \A i \in DispatchCalls :
        calls[i].auth = ~(~model.nil /\ model.Category \in {"kO", "CO"})

C4_Witness ==
    /\ rpc = "done" /\ route = "direct"
    /\ IsAO(model)
    /\ DispatchCalls # {}
    /\ \A i \in DispatchCalls : calls[i].auth

NonBlank(ls) == SelectSeq(ls, LAMBDA l : l.t # "blank")

\* The content deltas one body line carries, in choice order.
LineContent(l) ==
    IF l.t = "chunk"
    THEN Flatten([i \in 1..Len(l.choices) |-> l.choices[i].content])
    ELSE <<>>

AllContent(ls) == Flatten([i \in 1..Len(ls) |-> LineContent(ls[i])])

UsagesSeen(ls) ==
    SelectSeq([i \in 1..Len(ls) |-> IF ls[i].t = "chunk" THEN ls[i].usage ELSE Null],
              LAMBDA u : u # Null)

LastUsage(ls) == IF UsagesSeen(ls) = <<>> THEN Null ELSE Last(UsagesSeen(ls))

HelChunk  == ChunkLine(TRUE, "c1", "m1", << Choice("", <<"Hel">>, <<>>, Null) >>, Null)
LoChunk   == ChunkLine(TRUE, "c2", "m2", << Choice("", <<"lo">>, <<>>, Null) >>, Usage1)
StopChunk == ChunkLine(TRUE, "c1", "m1", << Choice("", <<>>, <<>>, "stop") >>, Usage2)

AggregatedOK == tpc = "done" /\ dialect = "direct" /\ ~stream /\ ~scanErr

\* C5: when a direct-dialect body has been read to its end, the non-streaming
\* response's content is the concatenation, in arrival order, of the content
\* deltas of every parsed chunk (blank, sentinel and malformed lines contribute
\* nothing) and its usage is the last non-null usage seen; the body "Hel", "lo",
\* finish_reason "stop" gives content "Hello" and finish_reason "stop".
C5_AggregatedContent ==
    AggregatedOK =>
        /\ response.kind = "chat.completion"
        /\ response.content = AllContent(lines)
        /\ response.usage = LastUsage(lines)
        /\ (lines = << HelChunk, LoChunk, StopChunk >> =>
                response.content = <<"Hel", "lo">> /\ response.finish = "stop")

C5_Witness ==
    /\ AggregatedOK
    /\ lines = << HelChunk, BadLine, LoChunk, DoneLine >>
    /\ response.content = <<"Hel", "lo">>
    /\ response.usage = Usage1

IsStop(l) == l.t = "obj" /\ l.typ = "stop"

HasContent(f) == f.t = "chunk" /\ \E i \in 1..Len(f.choices) : f.choices[i].content # <<>>

Count(w, f) == Cardinality({i \in 1..Len(w) : w[i] = f})

\* C6: a streamed session body whose event sequence (the lines after the
\* acknowledgment) ends in a stop event yields exactly one terminal delta,
\* directly followed by exactly one end-of-stream marker, and no content delta
\* after the terminal delta.
C6_OneTerminalThenDone ==
    ( /\ dialect = "session" /\ stream /\ tpc = "done" /\ ~scanErr
      /\ Len(NonBlank(lines)) >= 2
      /\ IsStop(Last(NonBlank(lines))) ) =>
        /\ Count(written, StopFrame) = 1
        /\ Count(written, DoneLine) = 1
        /\ Len(written) >= 2
        /\ written[Len(written) - 1] = StopFrame
        /\ Last(written) = DoneLine
        /\ \A i, j \in 1..Len(written) :
              (written[i] = StopFrame /\ i < j) => ~HasContent(written[j])

\* C7: a streaming response whose upstream body was read to its end without a
\* read error has the literal "data: [DONE]" line as its last output, in both
\* dialects.
C7_StreamEndsWithDone ==
    (stream /\ tpc = "done" /\ ~scanErr) =>
        (written # <<>> /\ Last(written) = DoneLine)

\* The frames a session event line is translated to.
EventFrames(l) ==
    IF l.t # "obj" THEN <<>>
    ELSE CASE l.typ = "message_start" -> << RoleFrame >>
           [] l.typ = "message_delta" -> << ContentFrame(l.content) >>
           [] l.typ = "stop" -> << StopFrame, DoneLine >>
           [] OTHER -> <<>>

ExpectedDirect(ls) == NonBlank(ls)

ExpectedSession(ls) ==
    LET nb == NonBlank(ls) IN
    Flatten([i \in 1..(Len(nb) - 1) |-> EventFrames(nb[i + 1])])

\* C8: at every point of a streaming exchange the frames written to the client
\* are, in upstream arrival order, exactly one frame per non-blank line read
\* (direct dialect) or exactly the translation of each recognized event read
\* after the acknowledgment line (session dialect), and everything written has
\* been flushed before the next line is read.
C8_OrderedExactlyOnce ==
    stream =>
        /\ written = IF dialect = "direct" THEN ExpectedDirect(lines)
                                           ELSE ExpectedSession(lines)
        /\ flushed = Len(written)

C8_Witness ==
    /\ stream /\ dialect = "session"
    /\ lines = << BadLine, ObjLine("message_start", <<>>),
                  ObjLine("message_delta", <<"Hel">>), ObjLine("stop", <<>>) >>
    /\ written = << RoleFrame, ContentFrame(<<"Hel">>), StopFrame, DoneLine >>
    /\ flushed = 4

\* ---------------------------------------------------------- dispatch
\* The attempts of call d made with the given kind of client.
Tries(d, client) ==
    Cardinality({i \in 1..Len(dlog[d]) : dlog[d][i].client = client})

\* Call d makes an attempt in this step.
Attempts(d) == Len(dlog'[d]) = Len(dlog[d]) + 1

\* In every state, for a call of Do with the pool enabled: proxy attempts
\* stay within the retry count, the direct client is used at most once and
\* only as attempt retryCount+1 after retryCount failed proxy attempts, its
\* result is what Do returns, an error is returned only when every attempt
\* failed, and the call has returned once retryCount+1 attempts are made.
DispatchBounded(d) ==
    /\ Tries(d, "proxy") <= retryCount
    /\ Tries(d, "direct") <= 1
    /\ Len(dlog[d]) <= retryCount + 1
    /\ \A i \in 1..Len(dlog[d]) :
          dlog[d][i].client = "direct" =>
              /\ i = retryCount + 1
              /\ \A j \in 1..(i - 1) : dlog[d][j] = Attempt("proxy", "err")
    /\ Tries(d, "direct") = 1 =>
          /\ dpc[d] = "done"
          /\ dres[d] = DoResult(Last(dlog[d]).out, "direct(fallback)")
    /\ dres[d].kind = "err" =>
          /\ Len(dlog[d]) = retryCount + 1
          /\ \A i \in 1..Len(dlog[d]) : dlog[d][i].out = "err"
    /\ Len(dlog[d]) = retryCount + 1 => dpc[d] = "done"

\* In every step: the counter of the path whose attempt failed goes up by
\* one when the failure is recorded, and every proxy attempt, the first and
\* each retry, advances the selection cursor by one and goes through the
\* path selection returns for the advanced cursor.
DispatchRetries(d) ==
    /\ (dpc[d] = "add" /\ dpc'[d] # "add") =>
          /\ Last(dlog[d]) = Attempt("proxy", "err")
          /\ FailCount'[dproxy[d]] = FailCount[dproxy[d]] + 1
    /\ (Attempts(d) /\ Last(dlog'[d]).client = "proxy") =>
          /\ currentIdx' = AddUint32(currentIdx)
          /\ dproxy'[d] = getNextProxy(currentIdx')
    /\ (dpc[d] \in {"load", "mark"} /\ dpc'[d] = "loop") => di'[d] = di[d] + 1

\* C9: with the pool enabled, a transport error increments the failed path's
\* failure counter and the call retries on the next path, making at most
\* retryCount proxy attempts; then exactly one direct attempt whose result is
\* returned; an error is returned only after every proxy attempt and the
\* direct fallback failed; at most retryCount+1 attempts are made in all.
C9_RetryThenFallback ==
    /\ [](proxyEnabled => \A d \in Calls : DispatchBounded(d))
    /\ [][proxyEnabled => \A d \in Calls : DispatchRetries(d)]_vars

C9_Witness ==
    \E d \in Calls :
        /\ proxyEnabled
        /\ retryCount = MaxRetry
        /\ dres[d] = TransportError("direct(fallback)")
        /\ Tries(d, "proxy") = retryCount
        /\ Tries(d, "direct") = 1
        /\ \E p \in Pool : FailCount[p] > 0

\* In every state: a call that returned a response returned the first
\* response any of its attempts received, that attempt is its last, and a
\* response received is a response returned.
ResponseReturned(d) ==
    /\ dres[d].kind = "resp" =>
          /\ dpc[d] = "done"
          /\ Last(dlog[d]).out = dres[d].status
    /\ \A i \in 1..Len(dlog[d]) :
          dlog[d][i].out # "err" =>
              /\ i = Len(dlog[d])
              /\ dres[d].kind = "resp"

\* In every step: the step in which an attempt receives a response ends the
\* call and leaves every failure counter and health flag alone, and a call
\* that has returned does nothing more until its goroutine enters Do afresh.
ResponseEndsCall(d) ==
    /\ (Attempts(d) /\ Last(dlog'[d]).out # "err") =>
          /\ dpc'[d] = "done"
          /\ dres'[d].kind = "resp"
          /\ dres'[d].status = Last(dlog'[d]).out
          /\ FailCount' = FailCount
          /\ Healthy' = Healthy
    /\ dpc[d] = "done" =>
          \/ /\ dpc'[d] = "done"
             /\ dlog'[d] = dlog[d]
             /\ dres'[d] = dres[d]
          \/ /\ dpc'[d] = "idle"
             /\ dlog'[d] = <<>>
             /\ FailCount' = FailCount
             /\ Healthy' = Healthy

\* In every step: a failure counter or health flag changes only in a probe's
\* step or in the step of a call whose last attempt ended in a transport
\* error.
HealthTableWriters ==
    (FailCount' # FailCount \/ Healthy' # Healthy) =>
        \/ ppc' # ppc
        \/ probes' # probes
        \/ \E d \in Calls :
              /\ dpc[d] \in {"add", "mark"}
              /\ dpc'[d] # dpc[d]
              /\ Last(dlog[d]).out = "err"

\* C10: once an attempt of a call receives a response, of whatever status,
\* the call returns that response at once: no further attempt, no fallback,
\* and no failure counter or health flag is changed on account of it.
C10_ResponseNotRetried ==
    /\ [](\A d \in Calls : ResponseReturned(d))
    /\ [][HealthTableWriters /\ \A d \in Calls : ResponseEndsCall(d)]_vars

C10_Witness ==
    \E d \in Calls :
        /\ proxyEnabled
        /\ dproxy[d] \in Pool
        /\ dres[d] = UpstreamResponse("500", ProxyURLs[dproxy[d]])
        /\ Len(dlog[d]) = 2
        /\ Len(dlog[d]) < retryCount + 1
        /\ dlog[d][1] = Attempt("proxy", "err")
        /\ FailCount[1] + FailCount[2] = 1

\* ---------------------------------------------------------- selection
\* Call d asks getNextProxy for a path in this step.
Selects(d) == Attempts(d) /\ Last(dlog'[d]).client = "proxy"

\* C11: a selection returns a pool entry; while some entry is healthy it
\* returns a healthy one, and when none is healthy it returns the first entry
\* of the pool.
C11_SelectsHealthyOrFirst ==
    [][\A d \in Calls :
          Selects(d) =>
              /\ dproxy'[d] \in Pool
              /\ (\E p \in Pool : Healthy[p]) => Healthy[dproxy'[d]]
              /\ (\A p \in Pool : ~Healthy[p]) => dproxy'[d] = 1]_vars

C11_Witness ==
    \E d \in Calls :
        /\ proxyEnabled
        /\ Len(proxies) > 2
        /\ traffic.callers = 1
        /\ probes = 0
        /\ returned > 0
        /\ dpc[d] = "add"
        /\ \A p \in Pool : ~Healthy[p]
        /\ dproxy[d] = 1

\* The pool entries selection may currently return as healthy.
Healthies == {p \in Pool : Healthy[p]}

\* C12: with N healthy entries, the last N+1 of a run of consecutive
\* dispatches that met no failure and no health change between them have
\* selected every healthy entry at least once.
C12_RoundRobinCovers ==
    LET N == Cardinality(Healthies) IN
    (N >= 1 /\ Len(picks) >= N + 1) =>
        \A p \in Healthies :
            \E i \in (Len(picks) - N)..Len(picks) : picks[i] = p

\* The pool has two entries and the first has had ProbeFailLimit failed
\* probes return, one after the other, with no successful probe since.
FirstPathDown == Len(proxies) = 2 /\ probeFails[1] >= ProbeFailLimit

\* A successful probe of the first entry makes it healthy, and a healthy
\* first entry is returned to the selection whose cursor stands on it.
FirstPathRecovers ==
    /\ (FirstPathDown /\ probeFails'[1] = 0) => Healthy'[1]
    /\ \A d \in Calls :
          (Selects(d) /\ Healthy[1] /\ ScanFrom(currentIdx', 0) = 1) =>
              dproxy'[d] = 1

ProbeSucceeds == probes' = probes + 1 /\ ppc' = ppc

\* Call d gets a 200 through a pool entry in this step.
RequestSucceeds(d) == Selects(d) /\ Last(dlog'[d]).out = "200"

\* C14: a success on a pool entry, whether a successful probe or a successful
\* request sent through it, leaves that entry with a failure counter of zero
\* and healthy.
C14_SuccessResets ==
    [][/\ ProbeSucceeds =>
             \E p \in Pool :
                 /\ ppc[p] = "idle"
                 /\ FailCount'[p] = 0 /\ Healthy'[p]
                 /\ \A q \in Pool \ {p} :
                       FailCount'[q] = FailCount[q] /\ Healthy'[q] = Healthy[q]
       /\ \A d \in Calls :
             RequestSucceeds(d) =>
                 FailCount'[dproxy'[d]] = 0 /\ Healthy'[dproxy'[d]]]_vars

\* ------------------------------------------------------------ the caches
\* ModelsCache.refresh is handling a failed load.
ModelsLoadFailed == mr.err /\ mr.pc # "idle"

\* C15: a failed refresh never replaces a non-empty generation: while the
\* models refresh handles a failed load and the table is not empty the table
\* stays as it is, and the persona list and mapping are written only by a
\* refresh whose fetch succeeded, so a failed fetch leaves both unchanged.
C15_StaleOverEmpty ==
    [][/\ (ModelsLoadFailed /\ Len(models) > 0) => models' = models
       /\ (pr.pc = "idle" /\ pr'.pc = "idle") =>
              UNCHANGED <<personas, modelToPersona>>
       /\ (pr.pc # "idle" \/ pr'.pc # "idle") => ~pr'.err]_vars

\* Both caches hold a generation and the last refresh of each has failed.
C15_Witness ==
    /\ boot = "serving"
    /\ hist.loaded /\ Len(models) > 0
    /\ mr.err /\ mr.pc = "idle"
    /\ Len(personas) > 0 /\ modelToPersona["m1"] = Last(personas)
    /\ pr.err /\ pr.pc = "idle"

\* Reader r lists the models in this step.
ListsModels(r) ==
    rd[r].pc = "idle" /\ rd'[r].pc = "done" /\ rd'[r].op = "GetModels"

\* The list ms holds exactly one model per override of the persona list ps,
\* named after the override and owned by the override's provider.
OnePerOverride(ms, ps) ==
    /\ {ms[i].ID : i \in 1..Len(ms)} =
          {ps[j].LLMModelVersionOverride : j \in 1..Len(ps)} \ {""}
    /\ \A i, k \in 1..Len(ms) : ms[i].ID = ms[k].ID => i = k
    /\ \A i \in 1..Len(ms) :
          \E j \in 1..Len(ps) :
              /\ ps[j].LLMModelVersionOverride = ms[i].ID
              /\ ps[j].LLMModelProviderOverride = ms[i].OwnedBy

\* C16: while loadModels has never succeeded, a listing of the models returns
\* one model per override held by the persona cache, and the empty list when
\* the persona cache is empty.
C16_ListedFromPersonas ==
    [][\A r \in Readers :
          (ListsModels(r) /\ ~hist.loaded) =>
              OnePerOverride(rd'[r].result.v, hist.pub)]_vars

\* The generations each cache can publish from the answers of these runs.
ModelGenerations ==
    {<<>>} \cup {LoadModels(f) : f \in LoadedFiles}
           \cup {PersonaModels(l, {}) : l \in FetchedLists}

\* What a lookup of id finds in the models table ms, and in the mapping of
\* the persona list ps.
ModelIn(ms, id) ==
    LET hits == {i \in 1..Len(ms) : ms[i].ID = id} IN
    IF hits = {} THEN NilModel
    ELSE ms[CHOOSE i \in hits : \A j \in hits : i <= j]
PersonaIn(ps, id) ==
    IF id \in OverrideIDs THEN BuildModelToPersona(ps)[id] ELSE NilPersona

\* What reader r read is what the call returns on the persona list ps and
\* the models table ms.
ReadOf(r, ps, ms) ==
    /\ rd[r].op = "getModels" => rd[r].result = Listed(PersonaModels(ps, {}))
    /\ rd[r].op = "GetPersonaForModel" =>
          rd[r].result = Found(PersonaIn(ps, rd[r].id))
    /\ rd[r].op = "GetModels" => rd[r].result = Listed(ms)
    /\ rd[r].op = "GetModel" => rd[r].result = Found(ModelIn(ms, rd[r].id))

\* C17: whatever the interleaving of refreshes and reads, the persona list
\* and the mapping a reader can see belong to the one published generation,
\* the models table is one whole generation, a reader holding the read lock
\* has read the published generation, and every finished read returned what
\* the call returns on one generation.
C17_ReadsOneGeneration ==
    /\ ~pcMu.w =>
          /\ personas = hist.pub
          /\ modelToPersona = BuildModelToPersona(hist.pub)
    /\ models \in ModelGenerations
    /\ \A r \in Readers :
          /\ rd[r].pc \in {"rlocked", "got"} => ~pcMu.w
          /\ rd[r].pc = "got" => ReadOf(r, hist.pub, models)
          /\ rd[r].pc = "done" =>
                \E ps \in FetchedLists, ms \in ModelGenerations : ReadOf(r, ps, ms)

\* A reader has looked m1 up in the mapping and still holds the read lock,
\* while a refresh with another persona list waits for the lock.
C17_Witness ==
    \E r \in Readers :
        /\ rd[r].pc = "got"
        /\ rd[r].op = "GetPersonaForModel" /\ rd[r].id = "m1"
        /\ rd[r].result = Found(Persona(4, "acme", "m1"))
        /\ pr.pc = "lock" /\ pr.got = << Persona(3, "acme", "m1") >>

\* ------------------------------------------------------ error responses
\* The request ended on a failed step of the session handshake: its last
\* upstream call was create-session or send-message and the client got an
\* error.
HandshakeFailed ==
    /\ rpc = "done"
    /\ calls # <<>>
    /\ Last(calls).kind \in {"create-session", "send-message"}
    /\ reply.kind = "error"

\* C18: a failed step of the session handshake, create-session or
\* send-message, by transport error or by a non-success status, is answered
\* with status 502.
C18_HandshakeFailureIs502 == HandshakeFailed => reply.status = 502

\* The request ended on a direct dispatch the upstream answered with a status
\* other than 200.
DirectRefused ==
    /\ rpc = "done"
    /\ calls # <<>>
    /\ Last(calls).kind = "dispatch"
    /\ Last(calls).status \notin {0, 200}

\* C19: when the upstream answers a direct dispatch with a status other than
\* 200, the client gets exactly that status, whether the upstream body is JSON
\* or not, and the body is not handed to the stream translator or the
\* aggregator.
C19_UpstreamStatusKept ==
    DirectRefused =>
        /\ reply.kind \in {"forwarded", "error"}
        /\ reply.status = Last(calls).status
        /\ tpc = "idle"

C19_Witness ==
    /\ DirectRefused
    /\ Last(calls).status = 503
    /\ reply = ErrorBody(503, "upstream_error")

\* The client was sent an error: an envelope written by writeError or by
\* Recovery, or an upstream error body passed on.
ErrorSent == rpc = "done" /\ reply.kind \in {"error", "forwarded"}

\* C20: every error response sent to the client has a body in the envelope
\* {error: {message, type, code}}.
C20_ErrorEnvelope ==
    ErrorSent => (reply.kind = "error" \/ reply.body = "envelope")

\* ------------------------------------------------------- empty bodies
\* The line carries no content and no reasoning content: it is blank, the end
\* sentinel, malformed, a chunk whose choices are all empty, or a session
\* object that is not a message_delta with text.
Contentless(l) ==
    \/ l.t \in {"blank", "done", "bad"}
    \/ l.t = "chunk" /\ \A i \in 1..Len(l.choices) :
                           l.choices[i].content = <<>> /\ l.choices[i].reasoning = <<>>
    \/ l.t = "obj" /\ (l.typ # "message_delta" \/ l.content = <<>>)

\* The non-streaming chat exchange has read a whole body that yielded nothing.
EmptyBodyRead ==
    /\ tpc = "done" /\ dialect \in {"direct", "session"} /\ ~stream /\ ~scanErr
    /\ \A i \in 1..Len(lines) : Contentless(lines[i])

\* C21: a body read to its end that yields no content and no reasoning
\* content is answered, in the non-streaming exchange of either dialect, with
\* status 200 and a completion whose message text is empty, never an error.
C21_EmptyBodyIsSuccess ==
    EmptyBodyRead =>
        /\ status = 200
        /\ response.kind = "chat.completion"
        /\ response.content = <<>>
        /\ response.reasoning = <<>>

\* A direct body of a blank line, a malformed line and the end sentinel.
C21_Witness ==
    /\ EmptyBodyRead
    /\ dialect = "direct"
    /\ lines = << BlankLine, BadLine, DoneLine >>
    /\ response.kind = "chat.completion"

\* ------------------------------------------------- health and counter
\* Nothing is at work on entry p: no probe of it is between its failure and
\* its return, and no call is inside markProxyFailed for it.
Settled(p) ==
    /\ ppc[p] = "idle"
    /\ \A d \in Calls : dpc[d] \in {"add", "load", "mark"} => dproxy[d] # p

\* The two thresholds of the code: the smaller and the larger.
LowThreshold == IF retryCount < ProbeFailLimit THEN retryCount ELSE ProbeFailLimit
HighThreshold == IF retryCount > ProbeFailLimit THEN retryCount ELSE ProbeFailLimit

\* C22: whatever the interleaving of probes and dispatches on an entry, its
\* health flag follows its failure counter: once nothing is at work on the
\* entry it is unhealthy only with a counter that has reached a threshold
\* (never with a counter of zero), and healthy only with a counter below the
\* threshold.
C22_HealthFollowsCounter ==
    \A p \in Pool :
        Settled(p) =>
            /\ ~Healthy[p] => (FailCount[p] > 0 /\ FailCount[p] >= LowThreshold)
            /\ Healthy[p] => FailCount[p] < HighThreshold

\* ------------------------------------------------- marking at the threshold
\* The health sweep writes Healthy = false on entry p in this step.
SweepMarks(p) == ppc[p] = "mark" /\ ppc'[p] = "idle"

\* A call of Do writes Healthy = false on entry p in this step.
RequestMarks(p) ==
    \E d \in Calls : dpc[d] = "mark" /\ dpc'[d] = "loop" /\ dproxy[d] = p

\* The sweep's threshold test on entry p passes in this step.
SweepDecides(p) == ppc[p] = "load" /\ ppc'[p] = "mark"

\* The threshold test of call d's markProxyFailed passes in this step.
RequestDecides(d) == dpc[d] = "load" /\ dpc'[d] = "mark"

\* C23: a pool entry goes from healthy to unhealthy only by the write of the
\* sweep or of a request that failed through it, and the threshold test
\* before that write passes only when the failures counted on the entry since
\* its last success (a successful probe or a 200 through it) have reached
\* the threshold: three for the sweep, PROXY_RETRY_COUNT for a request.
C23_MarkedAtThreshold ==
    [][/\ \A p \in Pool :
             /\ (Healthy[p] /\ ~Healthy'[p]) => (SweepMarks(p) \/ RequestMarks(p))
             /\ SweepDecides(p) => streak[p] >= ProbeFailLimit
       /\ \A d \in Calls :
             RequestDecides(d) => streak[dproxy[d]] >= retryCount]_vars

\* ------------------------------------------------- the session exchange
CreateCalls == {i \in 1..Len(calls) : calls[i].kind = "create-session"}
SendCalls == {i \in 1..Len(calls) : calls[i].kind = "send-message"}

\* The steps a session-routed exchange may take: routed, session created (or
\* refused), message sent (answered or refused).
SessionSteps ==
    {<<"route", "create">>, <<"create", "send">>, <<"create", "done">>,
     <<"send", "done">>}

\* What the upstream calls made so far allow the exchange to have done.
SessionCallsInOrder ==
    /\ Cardinality(CreateCalls) <= 1
    /\ Cardinality(SendCalls) <= 1
    /\ \A i \in SendCalls :
          /\ i > 1
          /\ calls[i - 1].kind = "create-session"
          /\ calls[i - 1].ok
          /\ calls[i].session = calls[i - 1].session
    /\ \A i \in CreateCalls : ~calls[i].ok => SendCalls = {}

\* Nothing goes to the client of a session-routed request before send-message
\* has come back, a refused create-session apart; a body is handed on only
\* when send-message returned 200.
SessionOutputAfterSend ==
    (route = "session" /\ reply # NoResponse) =>
        /\ CreateCalls # {}
        /\ \/ SendCalls # {}
           \/ \E i \in CreateCalls : ~calls[i].ok
        /\ reply.kind = "body" => \E i \in SendCalls : calls[i].status = 200

\* C24: a session-routed exchange goes create-session, send-message, answer,
\* each at most once and in that order: send-message is called only after
\* create-session succeeded and carries the session id it returned, nothing
\* is answered before send-message came back with 200 unless a step was
\* refused, and a refused create-session is followed by no send-message.
C24_SessionExchangeInOrder ==
    /\ [](SessionCallsInOrder /\ SessionOutputAfterSend)
    /\ [][(route' = "session" /\ rpc' # rpc) => <<rpc, rpc'>> \in SessionSteps]_vars

C24_Witness ==
    /\ rpc = "done" /\ route = "session"
    /\ Len(calls) = 2
    /\ calls[1] = CreateSessionCall(personaID, TRUE, "s1")
    /\ calls[2] = SendMessageCall("s1", 200)
    /\ reply.kind = "body"

\* ------------------------------------------------- the acknowledgment line
\* The session translator reads a line in this step.
SessionReads ==
    dialect = "session" /\ tpc = "scan" /\ Len(lines') = Len(lines) + 1

\* The text a session event line adds to the assembled message.
EventText(l) ==
    IF l.t = "obj" /\ l.typ = "message_delta" THEN l.content ELSE <<>>

\* The text of the events read after the first non-blank line.
TextAfterAck(ls) ==
    LET nb == NonBlank(ls) IN
    Flatten([i \in 1..(Len(nb) - 1) |-> EventText(nb[i + 1])])

StopProcessed ==
    /\ dialect = "session"
    /\ LET nb == NonBlank(lines) IN
       \E i \in 2..Len(nb) : nb[i].t = "obj" /\ nb[i].typ = "stop"

\* C26: once the session translator has processed a stop event, nothing the
\* upstream sends afterwards reaches the client or the assembled text: the
\* frames written and the accumulated content stay as they are.
C26_NothingAfterStop ==
    [][StopProcessed => (written' = written /\ agg'.content = agg.content)]_vars

\* ------------------------------------------------------- skipped lines
\* A line the translators skip: one that is not JSON of the expected shape,
\* or a session event of a type the switch has no case for (the object
\* without a type is the acknowledgment).
Skippable(l) ==
    \/ l.t = "bad"
    \/ l.t = "obj" /\ l.typ \notin {"", "message_start", "message_delta", "stop"}

\* The lines ls without the skippable ones; while ackSeen is false the first
\* non-blank line is kept whatever it is.
RECURSIVE DropSkipped(_, _)
DropSkipped(ls, ackSeen) ==
    IF ls = <<>> THEN <<>>
    ELSE LET l == Head(ls) IN
         IF ackSeen /\ Skippable(l)
         THEN DropSkipped(Tail(ls), ackSeen)
         ELSE << l >> \o DropSkipped(Tail(ls), ackSeen \/ l.t # "blank")

\* The session scan loop run over the lines ls.
RECURSIVE SessionRun(_, _, _)
SessionRun(a, ls, strm) ==
    IF ls = <<>> THEN [agg |-> a, out |-> <<>>]
    ELSE LET r == SessionLine(a, Head(ls), strm)
             rest == SessionRun(r.agg, Tail(ls), strm)
         IN [agg |-> rest.agg, out |-> r.out \o rest.out]

\* The aggregator's scan loop run over the lines ls.
RECURSIVE DirectRun(_, _)
DirectRun(a, ls) ==
    IF ls = <<>> THEN a ELSE DirectRun(AggregateLine(a, Head(ls)), Tail(ls))

\* The scan loop of Responses run over the lines ls.
RECURSIVE ResponsesRun(_, _)
ResponsesRun(a, ls) ==
    IF ls = <<>> THEN a ELSE ResponsesRun(ResponsesAggregateLine(a, Head(ls)), Tail(ls))

\* What has been written and accumulated is what the lines ls alone give.
ProcessedAs(ls) ==
    IF dialect = "session"
    THEN LET r == SessionRun(AggInit, ls, stream) IN
         /\ written = r.out
         /\ agg.content = r.agg.content
         /\ agg.chunkCount = r.agg.chunkCount
    ELSE IF dialect = "responses"
    THEN agg = ResponsesRun(AggInit, ls)
    ELSE agg = DirectRun(AggInit, ls)

\* The session translator (either mode) or an aggregator is at work.
Translating == dialect = "session" \/ ~stream

\* C27 as stated: wherever a malformed line or an event of unknown type
\* stands in the body, the output is what the body without it gives.
C27_AsStated ==
    Translating => ProcessedAs(DropSkipped(lines, TRUE))

\* C27: a malformed line or an event of unknown type is skipped, and the output
\* is what the body without it gives, when the line stands anywhere in a
\* direct body or after the first non-blank line of a session body. As the
\* first non-blank line of a session body it is skipped too, and takes the
\* place of the acknowledgment: the output is what the body gives with an
\* acknowledgment line where it stands.
C27_SkippedAsIfAbsent ==
    Translating =>
        /\ ProcessedAs(DropSkipped(lines, dialect # "session"))
        /\ (dialect = "session" /\ NonBlank(lines) # <<>>
                /\ Skippable(NonBlank(lines)[1])) =>
              ProcessedAs(<< AckLine >> \o Tail(NonBlank(lines)))

C27_Witness ==
    /\ dialect = "session" /\ stream
    /\ lines = << AckLine, BadLine, ObjLine("message_delta", <<"Hel">>),
                  ObjLine("citation_info", <<"x">>) >>
    /\ written = << ContentFrame(<<"Hel">>) >>

\* ------------------------------------------- what the aggregator retains
\* The parsed chunks of a body, in arrival order.
Chunks(ls) == SelectSeq(ls, LAMBDA l : l.t = "chunk")

FirstOr(s, d) == IF s = <<>> THEN d ELSE s[1]
LastOr(s, d) == IF s = <<>> THEN d ELSE s[Len(s)]

\* The ids and the models the chunks carry, empty ones left out.
IDsSeen(ls) ==
    SelectSeq([i \in 1..Len(Chunks(ls)) |-> Chunks(ls)[i].id], LAMBDA x : x # "")
ModelsSeen(ls) ==
    SelectSeq([i \in 1..Len(Chunks(ls)) |-> Chunks(ls)[i].model], LAMBDA x : x # "")

\* The reasoning deltas of a body, chunk by chunk and choice by choice.
AllReasoning(ls) ==
    Flatten([i \in 1..Len(Chunks(ls)) |->
                Flatten([j \in 1..Len(Chunks(ls)[i].choices) |->
                            Chunks(ls)[i].choices[j].reasoning])])

\* The non-null finish reasons of a body, chunk by chunk and choice by choice.
FinishesSeen(ls) ==
    Flatten([i \in 1..Len(Chunks(ls)) |->
                SelectSeq([j \in 1..Len(Chunks(ls)[i].choices) |->
                              Chunks(ls)[i].choices[j].finish],
                          LAMBDA f : f # Null)])

ReasoningAndFinish ==
    /\ response.reasoning = AllReasoning(lines)
    /\ response.finish = LastOr(FinishesSeen(lines), "")

\* C28 as stated: the aggregated response carries the id and the model of the
\* first parsed chunk, whatever they are.
C28_AsStated ==
    (AggregatedOK /\ Chunks(lines) # <<>>) =>
        /\ response.id = Chunks(lines)[1].id
        /\ response.model = Chunks(lines)[1].model
        /\ ReasoningAndFinish

\* C28: the aggregated response of a direct-dialect body carries the first
\* non-empty id and the first non-empty model seen among the parsed chunks
\* (each on its own, later values never replace them; empty when no chunk
\* carries one), the reasoning deltas concatenated in arrival order, and the
\* last non-null finish reason across all choices of all chunks.
C28_FirstSeenRetained ==
    AggregatedOK =>
        /\ response.id = FirstOr(IDsSeen(lines), "")
        /\ response.model = FirstOr(ModelsSeen(lines), "")
        /\ ReasoningAndFinish

C28_Witness ==
    /\ AggregatedOK
    /\ lines = << ChunkLine(FALSE, "", "", << Choice("", <<"a">>, <<"r1">>, "length"),
                                              Choice("", <<"b">>, <<"r2">>, Null) >>, Null),
                  HelChunk, LoChunk >>
    /\ response.id = "c1" /\ response.model = "m1"
    /\ response.reasoning = <<"r1", "r2">>
    /\ response.finish = "length"

\* ------------------------------------------------ one rule, two dialects
\* The session body has been read to its end and answered in one piece.
SessionAggregated ==
    tpc = "done" /\ dialect = "session" /\ ~stream /\ ~scanErr

\* What the direct aggregator accumulates from the frames the session
\* translator writes for the lines ls when streaming.
AggregatedFrames(ls) == DirectRun(AggInit, SessionRun(AggInit, ls, TRUE).out)

\* C29: the non-streaming answer to a session body is what the direct
\* aggregator gives for the frames the session translator writes for the same
\* body when streaming: the same content, and the same finish reason, empty
\* unless a frame carrying one was written.
C29_SessionAggregatesAlike ==
    SessionAggregated =>
        /\ response.content = AggregatedFrames(lines).content
        /\ response.finish = AggregatedFrames(lines).finishReason

\* The content half of it alone.
SessionContentAlike ==
    SessionAggregated => response.content = AggregatedFrames(lines).content

\* ------------------------------------------------ the upstream-bound body
\* The direct request of the exchange has been answered 200: its body is
\* handed to one of the two response handlers.
DirectAnswered ==
    /\ rpc = "done" /\ route = "direct"
    /\ DispatchCalls # {} /\ Last(calls).status = 200

\* Every upstream-bound body of a direct request has stream = true.
StreamForcedOn == \A i \in DispatchCalls : calls[i].body.stream = "true"

\* The client's stream flag alone picks the response handler.
ClientFlagDecides ==
    DirectAnswered =>
        reply = [kind |-> "body", dialect |-> "direct",
                 stream |-> (Last(calls).client.stream = "true")]

\* C30: the body of every direct upstream request has stream = true whether
\* the client's body says true, false or nothing; every other member of the
\* client's body is in it with the value the client gave; and a 200 is
\* forwarded as a stream exactly when the client's own flag is true,
\* aggregated otherwise.
C30_StreamForcedRestKept ==
    /\ StreamForcedOn
    /\ \A i \in DispatchCalls : calls[i].body.seed = calls[i].client.seed
    /\ ClientFlagDecides

\* ----------------------------------------------- the flattened history
\* The session request has flattened the history and made its send-message
\* call.
MessageSent ==
    /\ rpc = "done" /\ route = "session"
    /\ calls # << >> /\ Last(calls).kind = "send-message"

NamedRoles == {"system", "user", "assistant"}

\* The index of the first blank-line separator of a string, 0 when none.
FirstBreak(s) ==
    IF \E k \in 1..Len(s) : s[k] = "\n\n"
    THEN CHOOSE k \in 1..Len(s) : s[k] = "\n\n" /\ \A j \in 1..(k - 1) : s[j] # "\n\n"
    ELSE 0

\* A string cut at its blank-line separators (no segment for the empty string).
RECURSIVE SegmentsOf(_)
SegmentsOf(s) ==
    IF s = << >> THEN << >>
    ELSE IF FirstBreak(s) = 0 THEN << s >>
    ELSE << SubSeq(s, 1, FirstBreak(s) - 1) >>
         \o (IF FirstBreak(s) = Len(s) THEN << << >> >>
             ELSE SegmentsOf(SubSeq(s, FirstBreak(s) + 1, Len(s))))

\* C31: the string a session request sends has one segment per message of the
\* history, in message order, segments separated by a blank line: the segment
\* of a system, user or assistant message is its role tag followed by its
\* text, and no message is left without a segment.
C31_OneSegmentPerMessage ==
    MessageSent =>
        /\ Len(SegmentsOf(message)) = Len(messages)
        /\ \A i \in 1..Len(messages) :
              messages[i].Role \in NamedRoles =>
                  SegmentsOf(message)[i]
                      = RoleTag(messages[i].Role) \o GetTextContent(messages[i].Content)

\* ss[1], sep, ss[2], sep, ..., ss[n] run together.
Interleaved(ss, sep) ==
    Flatten([i \in 1..(2 * Len(ss) - 1) |->
                IF i % 2 = 1 THEN ss[(i + 1) \div 2] ELSE sep])

IsText(p) == p.Type = "text"

\* The texts of the text parts of a content, in part order.
PartTexts(mc) ==
    LET ts == SelectSeq(mc.Parts, IsText) IN [i \in 1..Len(ts) |-> ts[i].Text]

\* A content without its image parts.
WithoutImages(mc) ==
    IF mc.IsMultiPart THEN MultiPartContent(SelectSeq(mc.Parts, IsText)) ELSE mc

\* The history of a session request that names only the three tagged roles.
TaggedHistory == \A i \in 1..Len(messages) : messages[i].Role \in NamedRoles

\* What a tagged message is expected to contribute: its tag, then its plain
\* text or its text parts with a newline between neighbours.
ExpectedSegment(m) ==
    RoleTag(m.Role) \o (IF m.Content.IsMultiPart
                        THEN Interleaved(PartTexts(m.Content), << "\n" >>)
                        ELSE m.Content.Text)

AggregationCutShort == tpc = "done" /\ ~stream /\ scanErr

\* What the client finds when a handler returns without having written
\* anything: net/http answers 200 with an empty body.
StatusSeen == IF status = 0 THEN 200 ELSE status

\* C34: an aggregating handler that meets a read error on the upstream body
\* answers with an error response, never with a success status or an object
\* built from the lines read so far.
C34_ReadErrorAborts ==
    AggregationCutShort =>
        /\ StatusSeen >= 400
        /\ response.kind = "error"

\* ------------------------------------------------ the responses endpoint
\* The responses request has been answered 200 by the upstream.
ResponsesAnswered ==
    /\ rpc = "done" /\ calls # << >> /\ Last(calls).status = 200

\* C40: a responses request is never session-routed, whatever the registry and
\* the persona cache hold for its model: it makes no create-session and no
\* send-message call, at most one call at all, a direct dispatch whose body
\* asks for a stream, and a 200 body is handed to the aggregator of the
\* endpoint, which answers in one piece whatever stream flag the client sent.
C40_ResponsesAlwaysDirect ==
    /\ route # "session"
    /\ personaID = 0 /\ sessionID = ""
    /\ Len(calls) <= 1
    /\ \A i \in 1..Len(calls) :
          calls[i].kind = "dispatch" /\ calls[i].body.stream = "true"
    /\ ResponsesAnswered =>
          reply = [kind |-> "body", dialect |-> "responses", stream |-> FALSE]

\* A responses request for a session-category model with a bound persona,
\* sent with stream = true and answered 200.
C40_Witness ==
    /\ ResponsesAnswered
    /\ UseChatSession(model) /\ model.PersonaID # 0
    /\ chatReq.Stream
    /\ route = "direct"
    /\ Len(calls) = 1 /\ calls[1].kind = "dispatch"
    /\ reply.kind = "body" /\ reply.dialect = "responses"

\* ------------------------------------------ the handshake and the pool
\* The pool is there to be used: it is enabled and allows at least one try.
PoolInUse == proxyEnabled /\ retryCount > 0

\* C35: the create-session and send-message calls of a session-routed request
\* take the way a direct-dialect request takes: with the pool in use the first
\* attempt of each goes through the entry the selection picks (the cursor
\* moves and the entry is recorded), and the direct client is used only after
\* the retries have failed.
C35_HandshakeThroughDispatcher ==
    \A d \in Calls :
        (PoolInUse /\ dlog[d] # << >>) =>
            /\ dlog[d][1].client = "proxy"
            /\ dproxy[d] \in Pool
            /\ currentIdx # <<0, 0>>

\* ------------------------------------------------ writes and the lock
\* The writes each goroutine has made since it last took or gave up the lock
\* (for a write made without the lock: since its last statement).
WritesOfDispatcher(t) == ld[t].wrote
WritesOfProbe(p) == lp[p].wrote

PendingWrites ==
    UNION ({WritesOfDispatcher(t) : t \in Dispatchers} \cup {WritesOfProbe(p) : p \in Pool})

\* Two goroutines have written the same field of the same entry with nothing
\* between the two writes that orders them
\* (two atomic additions order themselves).
SameField(a, b) ==
    /\ a.field = b.field /\ a.entry = b.entry
    /\ ~(a.mode = "none" /\ b.mode = "none")

UnorderedWrites ==
    \/ \E t, u \in Dispatchers :
          t # u /\ \E a \in WritesOfDispatcher(t), b \in WritesOfDispatcher(u) : SameField(a, b)
    \/ \E t \in Dispatchers, p \in Pool :
          \E a \in WritesOfDispatcher(t), b \in WritesOfProbe(p) : SameField(a, b)
    \/ \E p, q \in Pool :
          p # q /\ \E a \in WritesOfProbe(p), b \in WritesOfProbe(q) : SameField(a, b)

\* C36: whatever the dispatches and the probes do at the same time, every
\* write to a field of a pool entry (health flag, failure counter,
\* last-checked, last-used) is made with proxyMu held exclusively, and no two
\* goroutines write the same field of the same entry unordered.
C36_WritesUnderExclusiveLock ==
    /\ \A w \in PendingWrites : w.mode = "exclusive"
    /\ ~UnorderedWrites

\* ------------------------------------------------------- cancellation
\* C39: once the context of a request is cancelled, the dispatch of that
\* request makes no further attempt, and none of its steps changes a failure
\* counter or a health flag.
C39_CancellationLeavesPoolAlone ==
    [][\A t \in Dispatchers :
          (ld[t].ctx = "canceled" /\ ld'[t] # ld[t]) =>
              /\ ld'[t].tries = ld[t].tries
              /\ FailCount' = FailCount
              /\ Healthy' = Healthy]_vars

\* ------------------------------------------------ inbound authentication
Exempt(r) == r.Path \in {"/health", "/"}

\* The header is the key, bare or after the prefix "Bearer ".
PresentsKey(r) ==
    r.Authorization = apiKey \/ r.Authorization = << "Bearer " >> \o apiKey

\* C37: with an API key configured, a request to a path other than /health
\* and / is handed to the handlers only when its Authorization header is the
\* key, with or without the Bearer prefix; a request with a missing or a
\* different token is answered 401 and not handed on. With no key configured
\* nothing is answered 401.
C37_KeyGuardsHandlers ==
    served # "none" =>
        /\ (apiKey # << >> /\ ~Exempt(inbound) /\ served = "next") => PresentsKey(inbound)
        /\ (apiKey # << >> /\ ~Exempt(inbound) /\ ~PresentsKey(inbound)
                /\ inbound.Method # "OPTIONS") =>
              (served = "401" /\ reply = ErrorBody(401, "invalid_request_error"))
        /\ apiKey = << >> => served # "401"
        /\ (apiKey = << >> /\ inbound.Method # "OPTIONS") => served = "next"

\* A request for the chat endpoint carrying another key behind the prefix is
\* refused while a key is configured.
C37_Witness ==
    /\ apiKey = << "sk-1" >>
    /\ inbound = [Method |-> "POST", Path |-> "/v1/chat/completions",
                  Authorization |-> << "Bearer ", "Bearer ", "sk-1" >>]
    /\ served = "401"

\* ------------------------------------------ the persona cache and routing
\* The registry holds no entry of the session category for the identifier: it
\* holds none at all, or only entries of other categories, or entries derived
\* from the personas, which carry no category.
NoSessionEntry(id) ==
    \A i \in 1..Len(models) : models[i].ID = id => models[i].Category # "AO"

\* C38: a request whose model identifier has no session-category entry in the
\* registry when the handler looks it up is never session-routed, whether the
\* persona cache maps the identifier to a persona or not: the lookup hands
\* back no AO model, and a request without an AO model is routed direct.
C38_PersonaCacheAloneNeverRoutes ==
    [][ /\ (rpc # "route" /\ rpc' = "route" /\ NoSessionEntry(chatReq'.Model))
            => ~IsAO(model')
        /\ (rpc = "route" /\ ~IsAO(model)) => route' # "session" ]_vars

\* The registry answered with an entry derived from the personas for a model
\* the persona cache maps to a persona, and the request went out direct.
C38_Witness ==
    /\ rpc = "done" /\ route = "direct"
    /\ ~model.nil /\ model.ID = chatReq.Model /\ model.Category = ""
    /\ ~GetPersonaForModel(chatReq.Model).nil
    /\ GetModelByID(chatReq.Model) = model
    /\ DispatchCalls # {} /\ SessionCalls = {}


====
